---------------------------- MODULE Spec2Model ----------------------------
(***************************************************************************)
(* A model of the Hytale region/chunk decoder and top-down renderer        *)
(* (render_chunk.py, render_map.py, getChunkBlocks.py).                    *)
(*                                                                         *)
(* Conventions.  A Python bytes object is a sequence of integers 0..255;   *)
(* Python index k is TLA+ index k+1.  A Python str is the sequence of its  *)
(* code points.  A dict is a function whose DOMAIN is its key set.  A call *)
(* that can raise returns a record with kind = "raise".                    *)
(***************************************************************************)
EXTENDS Integers, Sequences, FiniteSets, TLC

VARIABLES
    cx, cy, cz,          \* SpecCell: local coordinates handed to get_block_at / get_fluid_at
    cflat,               \* SpecCell: flat_idx computed by get_block_at (-1 before the call)
    cfflat,              \* SpecCell: flat_idx computed by get_fluid_at (-1 before the call)
    larray,              \* SpecLookup: the index array (blocks_array / type_array)
    ltype,               \* SpecLookup: palette_type of the array
    lcell,               \* SpecLookup: <<x, y, z>> of the last lookup
    lblock,              \* SpecLookup: internal_id read by get_block_at
    lfluid,              \* SpecLookup: type_id read by get_fluid_at
    tgen,                \* SpecTints: the values and palettes the BlockChunk blob was built from
    tchunk,              \* SpecTints: chunk_data['Components'], its BlockChunk.Data if present
    tret,                \* SpecTints: what parse_biome_tints returned
    fgen,                \* SpecFluid: what the fluid blob was built from
    fdata,               \* SpecFluid: fluid_data, the bytes handed to parse_fluid_section
    fret,                \* SpecFluid: what parse_fluid_section returned
    pgen,                \* SpecParse: what the block blob was built from
    pdata,               \* SpecParse: section_data, the bytes of a section's Block.Data
    pret,                \* SpecParse: what parse_block_section returned
    pdec,                \* SpecParse: the palette decode_blocks built
    sgen,                \* SpecSurface: what the chunk document was built from
    sdoc,                \* SpecSurface: chunk_data["Components"]["ChunkColumn"]["Sections"]
    scol,                \* SpecSurface: the column <<x, z>> asked for
    sret,                \* SpecSurface: what find_surface_height returned
    rgen,                \* SpecRegion: what the region files on disk were built from
    rchunk,              \* SpecRegion: <<chunk_x, chunk_z>> handed to read_chunk_data
    rlog,                \* SpecRegion: the file operations read_chunk_data performed
    rret,                \* SpecRegion: what read_chunk_data returned
    wgen,                \* SpecColumn: what the chunk's fluid sections were built from
    wdoc,                \* SpecColumn: chunk_data["Components"]["ChunkColumn"]["Sections"]
    wcol,                \* SpecColumn: the column <<x, z>> asked for
    wsurf,               \* SpecColumn: surface_y
    wret,                \* SpecColumn: what find_surface_fluid returned
    bterrain,            \* SpecBlend: terrain_color
    btype,               \* SpecBlend: fluid_type
    bdepth,              \* SpecBlend: fluid_level
    bret,                \* SpecBlend: what blend_fluid_color returned
    bprev,               \* SpecBlend: what it returned for the depth before
    hret,                \* SpecRegion: what getChunkBlocks.read_header returned
    yheight,             \* SpecShade: height, the centre height handed to calculate_shading
    yneighbors,          \* SpecShade: neighbors, (N, S, W, E, NW, NE, SW, SE)
    ypixel,              \* SpecShade: <<un, vn, q>>, pixel_x = un / q and pixel_z = vn / q
    yret,                \* SpecShade: what calculate_shading returned
    kfile,               \* SpecColor: block_properties.json as it is on disk
    kassets,             \* SpecColor: the working directory of the process and its Assets
    kcache,              \* SpecColor: _block_properties, the module's cache
    kreads,              \* SpecColor: how many times the file has been read
    kcalls,              \* SpecColor: how many calls the process has made
    ktables,             \* SpecColor: the table objects load_block_properties has returned
    kcall,               \* SpecColor: the function the last call was made to
    kret,                \* SpecColor: what the last call returned
    mworld,              \* SpecMap: the region files on disk and the documents their frames decode to
    mprops,              \* SpecMap: block_properties.json, _block_properties and the reads of the file
    margs,               \* SpecMap: the arguments of render_map
    mpc,                 \* SpecMap: where render_map is
    mi,                  \* SpecMap: how many chunks of the range the loop has gone through
    mdata,               \* SpecMap: chunk_data and parsed_data of the chunk being rendered
    mblocks,             \* SpecMap: blocks, the surface block names of the chunk being rendered
    mimg,                \* SpecMap: pixels, the colour of every pixel of img
    mwrites,             \* SpecMap: how many times each pixel has been assigned
    mlog,                \* SpecMap: what became of each chunk the loop has gone through
    mexc,                \* SpecMap: the exception render_map raised
    gentries,            \* SpecMatch: properties, the entries of the loaded table in file order
    gname,               \* SpecMatch: block_name handed to get_block_color
    gtint,               \* SpecMatch: biome_tint handed to get_block_color
    gret,                \* SpecMatch: what get_block_color returned
    ndoc,                \* SpecScan: chunk_data, the decoded document render_chunk works on
    ncol,                \* SpecScan: <<x, z>>, the column followed through the two loops
    npc,                 \* SpecScan: where render_chunk is
    nparsed,             \* SpecScan: heights and biome_tints, from parse_biome_tints
    nfound,              \* SpecScan: what find_surface_height returned for the column
    nfluid               \* SpecScan: surface_y handed to find_surface_fluid, and what it returned

varsCell   == <<cx, cy, cz, cflat, cfflat>>
varsLookup == <<larray, ltype, lcell, lblock, lfluid>>
varsTints  == <<tgen, tchunk, tret>>
varsFluid  == <<fgen, fdata, fret>>
varsParse  == <<pgen, pdata, pret, pdec>>
varsSurface == <<sgen, sdoc, scol, sret>>
varsRegion == <<rgen, rchunk, rlog, rret>>
varsColumn == <<wgen, wdoc, wcol, wsurf, wret>>
varsBlend == <<bterrain, btype, bdepth, bret, bprev>>
varsHeader == <<hret>>
varsShade == <<yheight, yneighbors, ypixel, yret>>
varsColor == <<kfile, kassets, kcache, kreads, kcalls, ktables, kcall, kret>>
varsMap == <<mworld, mprops, margs, mpc, mi, mdata, mblocks, mimg, mwrites, mlog, mexc>>
varsMatch == <<gentries, gname, gtint, gret>>
varsScan == <<ndoc, ncol, npc, nparsed, nfound, nfluid>>
vars       == <<varsCell, varsLookup, varsTints, varsFluid, varsParse, varsSurface, varsRegion,
                varsColumn,
                varsBlend,
                varsHeader,
                varsShade,
                varsColor,
                varsMap,
                varsMatch,
                varsScan>>

-----------------------------------------------------------------------------
(* Integer helpers: Python's bit operators on non-negative integers.       *)

Min(a, b) == IF a < b THEN a ELSE b
Max(a, b) == IF a > b THEN a ELSE b

RECURSIVE BitAnd(_, _)
BitAnd(a, b) ==
    IF a = 0 \/ b = 0 THEN 0
    ELSE (a % 2) * (b % 2) + 2 * BitAnd(a \div 2, b \div 2)

RECURSIVE BitOr(_, _)
BitOr(a, b) ==
    IF a = 0 THEN b
    ELSE IF b = 0 THEN a
    ELSE Max(a % 2, b % 2) + 2 * BitOr(a \div 2, b \div 2)

Shl(a, n) == a * (2 ^ n)
Shr(a, n) == a \div (2 ^ n)

(* Results of calls that may raise.                                        *)
Ok(v)    == [kind |-> "ok", val |-> v]
Raise(e) == [kind |-> "raise", val |-> e]
IsOk(r)  == r.kind = "ok"

NotCalled == [kind |-> "none", val |-> 0]

(* struct.unpack('>H' / '>I' / '>B', b): big-endian unsigned value of a    *)
(* byte string of exactly the required size.                               *)
RECURSIVE BigEndian(_)
BigEndian(b) ==
    IF Len(b) = 0 THEN 0
    ELSE BigEndian(SubSeq(b, 1, Len(b) - 1)) * 256 + b[Len(b)]

(* struct.unpack('<H' / '<I', b): little-endian unsigned value.            *)
RECURSIVE LittleEndian(_)
LittleEndian(b) ==
    IF Len(b) = 0 THEN 0
    ELSE b[1] + 256 * LittleEndian(Tail(b))

-----------------------------------------------------------------------------
(* Cell addressing.                                                         *)

SectionSide == 32

\* get_block_at: flat_idx = ((y & 31) << 10) | ((z & 31) << 5) | (x & 31)
MutBlockFlatIdx(x, y, z) ==
    BitOr(BitOr(Shl(BitAnd(y, 31), 10), Shl(BitAnd(z, 31), 4)), BitAnd(x, 31))

BlockFlatIdx(x, y, z) ==
    BitOr(BitOr(Shl(BitAnd(y, 31), 10), Shl(BitAnd(z, 31), 5)), BitAnd(x, 31))

\* get_fluid_at: the same expression, written a second time in the source
FluidFlatIdx(x, y, z) ==
    BitOr(BitOr(Shl(BitAnd(y, 31), 10), Shl(BitAnd(z, 31), 5)), BitAnd(x, 31))

Coords == 0 .. (SectionSide - 1)


(***************************************************************************)
(* SpecCell: get_block_at / get_fluid_at compute the flat index of every   *)
(* local cell.                                                              *)
(***************************************************************************)
IdleBlend == bterrain = <<>> /\ btype = <<>> /\ bdepth = 0 /\ bret = NotCalled /\ bprev = NotCalled
IdleHeader == hret = NotCalled
IdleShade == yheight = 0 /\ yneighbors = <<>> /\ ypixel = <<>> /\ yret = NotCalled
IdleColor ==
    /\ kfile = <<>> /\ kassets = <<>>
    /\ kcache = <<>> /\ kreads = 0 /\ kcalls = 0 /\ ktables = {}
    /\ kcall = "" /\ kret = NotCalled
IdleMap == mworld = <<>> /\ mprops = <<>> /\ margs = <<>> /\ mpc = "" /\ mi = 0 /\ mdata = <<>> /\ mblocks = <<>> /\ mimg = <<>> /\ mwrites = <<>> /\ mlog = <<>> /\ mexc = ""
IdleMatch == gentries = <<>> /\ gname = <<>> /\ gtint = <<>> /\ gret = NotCalled
IdleScan ==
    /\ ndoc = <<>> /\ ncol = <<>> /\ npc = "idle" /\ nparsed = <<>>
    /\ nfound = NotCalled /\ nfluid = NotCalled
IdleCell   == cx = 0 /\ cy = 0 /\ cz = 0 /\ cflat = -1 /\ cfflat = -1
IdleLookup == larray = <<>> /\ ltype = 0 /\ lcell = <<>>
              /\ lblock = NotCalled /\ lfluid = NotCalled

IdleTints  == tgen = <<>> /\ tchunk = <<>> /\ tret = NotCalled
IdleFluid  == fgen = <<>> /\ fdata = <<>> /\ fret = NotCalled
IdleParse  == pgen = <<>> /\ pdata = <<>> /\ pret = NotCalled /\ pdec = NotCalled
IdleSurface == sgen = <<>> /\ sdoc = <<>> /\ scol = <<>> /\ sret = NotCalled
IdleRegion == rgen = <<>> /\ rchunk = <<>> /\ rlog = <<>> /\ rret = NotCalled
IdleColumn ==
    wgen = <<>> /\ wdoc = <<>> /\ wcol = <<>> /\ wsurf = 0 /\ wret = NotCalled

InitCell ==
    /\ cx \in Coords /\ cy \in Coords /\ cz \in Coords
    /\ cflat = -1 /\ cfflat = -1
    /\ IdleLookup /\ IdleTints /\ IdleFluid /\ IdleParse /\ IdleSurface /\ IdleRegion
    /\ IdleColumn
    /\ IdleBlend
    /\ IdleHeader
    /\ IdleShade
    /\ IdleColor
    /\ IdleMap
    /\ IdleMatch
    /\ IdleScan

BlockIndexStep ==
    /\ cflat = -1
    /\ cflat' = BlockFlatIdx(cx, cy, cz)
    /\ UNCHANGED <<cx, cy, cz, cfflat, varsLookup, varsTints, varsFluid, varsParse, varsSurface,
                   varsRegion, varsColumn, varsBlend, varsHeader, varsShade,
                   varsColor, varsMap, varsMatch, varsScan>>

FluidIndexStep ==
    /\ cfflat = -1
    /\ cfflat' = FluidFlatIdx(cx, cy, cz)
    /\ UNCHANGED <<cx, cy, cz, cflat, varsLookup, varsTints, varsFluid, varsParse, varsSurface,
                   varsRegion, varsColumn, varsBlend, varsHeader, varsShade,
                   varsColor, varsMap, varsMatch, varsScan>>

NextCell == BlockIndexStep \/ FluidIndexStep

SpecCell == InitCell /\ [][NextCell]_vars

\* The inverse the claim's bijection needs: the cell a flat index stands for.
CellOfIndex(f) == <<f % 32, f \div 1024, (f \div 32) % 32>>

\* C7: the flat cell index maps [0,31]^3 one-to-one onto [0,32767].  Every
\* computed index lies in the range and determines its cell (so distinct cells
\* get distinct indices), and the index numbered by the cell's own digits is
\* the image of some cell (so every index is hit); for both lookups.
C7_FlatIndexBijection ==
    LET n == cx + 32 * cy + 1024 * cz
        c == CellOfIndex(n)
    IN  /\ cflat # -1 =>
            /\ cflat \in 0 .. 32767
            /\ CellOfIndex(cflat) = <<cx, cy, cz>>
            /\ BlockFlatIdx(c[1], c[2], c[3]) = n
        /\ cfflat # -1 =>
            /\ cfflat \in 0 .. 32767
            /\ CellOfIndex(cfflat) = <<cx, cy, cz>>
            /\ FluidFlatIdx(c[1], c[2], c[3]) = n

\* C7 witness: the last cell has been indexed by both lookups.
C7_Witness ==
    cx = 31 /\ cy = 31 /\ cz = 31 /\ cflat = 32767 /\ cfflat = 32767

-----------------------------------------------------------------------------
(***************************************************************************)
(* SpecLookup: reading a palette id out of a full-size index array.        *)
(***************************************************************************)

\* The sizes with that of Byte taken for HalfByte's.
MutArraySize(palette_type) ==
    CASE palette_type = 1 -> 16384
      [] palette_type = 2 -> 16384
      [] palette_type = 3 -> 65536
      [] OTHER -> 0

\* Bytes of an index array for each palette_type (parse_block_section).
ArraySize(palette_type) ==
    CASE palette_type = 1 -> 16384
      [] palette_type = 2 -> 32768
      [] palette_type = 3 -> 65536
      [] OTHER -> 0

\* get_block_at, "Get internal ID" with the nibbles of HalfByte exchanged
MutBlockInternalId(blocks_array, palette_type, flat_idx) ==
    IF palette_type = 1 THEN
        LET byte_idx == flat_idx \div 2 IN
        IF byte_idx >= Len(blocks_array) THEN Raise("IndexError")
        ELSE IF flat_idx % 2 = 0
             THEN Ok(BitAnd(Shr(blocks_array[byte_idx + 1], 4), 15))
             ELSE Ok(BitAnd(blocks_array[byte_idx + 1], 15))
    ELSE IF palette_type = 2 THEN
        IF flat_idx >= Len(blocks_array) THEN Raise("IndexError")
        ELSE Ok(blocks_array[flat_idx + 1])
    ELSE IF palette_type = 3 THEN
        LET b == SubSeq(blocks_array, flat_idx * 2 + 1,
                        Min(flat_idx * 2 + 2, Len(blocks_array))) IN
        IF Len(b) # 2 THEN Raise("struct.error") ELSE Ok(BigEndian(b))
    ELSE [kind |-> "else", val |-> 0]

\* get_block_at, "Get internal ID": the id of cell flat_idx, an IndexError or
\* struct.error when the array is too short, "else" for an unknown type.
BlockInternalId(blocks_array, palette_type, flat_idx) ==
    IF palette_type = 1 THEN
        LET byte_idx == flat_idx \div 2 IN
        IF byte_idx >= Len(blocks_array) THEN Raise("IndexError")
        ELSE IF flat_idx % 2 = 0
             THEN Ok(BitAnd(blocks_array[byte_idx + 1], 15))
             ELSE Ok(BitAnd(Shr(blocks_array[byte_idx + 1], 4), 15))
    ELSE IF palette_type = 2 THEN
        IF flat_idx >= Len(blocks_array) THEN Raise("IndexError")
        ELSE Ok(blocks_array[flat_idx + 1])
    ELSE IF palette_type = 3 THEN
        LET b == SubSeq(blocks_array, flat_idx * 2 + 1,
                        Min(flat_idx * 2 + 2, Len(blocks_array))) IN
        IF Len(b) # 2 THEN Raise("struct.error") ELSE Ok(BigEndian(b))
    ELSE [kind |-> "else", val |-> 0]

\* get_fluid_at, "Get fluid type internal ID".
FluidTypeId(type_array, palette_type, flat_idx) ==
    IF palette_type = 1 THEN
        LET byte_idx == flat_idx \div 2 IN
        IF byte_idx >= Len(type_array) THEN Raise("IndexError")
        ELSE IF flat_idx % 2 = 0
             THEN Ok(BitAnd(type_array[byte_idx + 1], 15))
             ELSE Ok(BitAnd(Shr(type_array[byte_idx + 1], 4), 15))
    ELSE IF palette_type = 2 THEN
        IF flat_idx >= Len(type_array) THEN Raise("IndexError")
        ELSE Ok(type_array[flat_idx + 1])
    ELSE IF palette_type = 3 THEN
        LET b == SubSeq(type_array, flat_idx * 2 + 1,
                        Min(flat_idx * 2 + 2, Len(type_array))) IN
        IF Len(b) # 2 THEN Raise("struct.error") ELSE Ok(BigEndian(b))
    ELSE [kind |-> "else", val |-> 0]

\* Input arrays: byte k (from 0) is (k * mul + add) mod 256, so that the two
\* nibbles of a byte, and neighbouring bytes, differ.
EdgeWidth == 2
SampleCoords == (0 .. (EdgeWidth - 1)) \cup ((SectionSide - EdgeWidth) .. (SectionSide - 1))
ArrayPatterns == {<<7, 0>>, <<37, 201>>}
PatternArray(p, n) == [k \in 1 .. n |-> ((k - 1) * p[1] + p[2]) % 256]

InitLookup ==
    /\ ltype \in {1, 2, 3}
    /\ \E p \in ArrayPatterns : larray = PatternArray(p, ArraySize(ltype))
    /\ lcell \in SampleCoords \X SampleCoords \X SampleCoords
    /\ lblock = NotCalled /\ lfluid = NotCalled
    /\ IdleCell /\ IdleTints /\ IdleFluid /\ IdleParse /\ IdleSurface /\ IdleRegion
    /\ IdleColumn
    /\ IdleBlend
    /\ IdleHeader
    /\ IdleShade
    /\ IdleColor
    /\ IdleMap
    /\ IdleMatch
    /\ IdleScan

GetBlockAtStep ==
    /\ lblock = NotCalled
    /\ lblock' = BlockInternalId(larray, ltype, BlockFlatIdx(lcell[1], lcell[2], lcell[3]))
    /\ UNCHANGED <<larray, ltype, lcell, lfluid, varsCell, varsTints, varsFluid, varsParse, varsSurface,
                   varsRegion, varsColumn, varsBlend, varsHeader, varsShade,
                   varsColor, varsMap, varsMatch, varsScan>>

GetFluidAtStep ==
    /\ lfluid = NotCalled
    /\ lfluid' = FluidTypeId(larray, ltype, FluidFlatIdx(lcell[1], lcell[2], lcell[3]))
    /\ UNCHANGED <<larray, ltype, lcell, lblock, varsCell, varsTints, varsFluid, varsParse, varsSurface,
                   varsRegion, varsColumn, varsBlend, varsHeader, varsShade,
                   varsColor, varsMap, varsMatch, varsScan>>

NextLookup == GetBlockAtStep \/ GetFluidAtStep

SpecLookup == InitLookup /\ [][NextLookup]_vars

\* The id the format stores for cell f of array a (a[k] is byte k, from 0).
StoredId(a, t, f) ==
    CASE t = 2 -> a[f + 1]
      [] t = 1 -> IF f % 2 = 0 THEN a[(f \div 2) + 1] % 16
                               ELSE a[(f \div 2) + 1] \div 16
      [] t = 3 -> 256 * a[2 * f + 1] + a[2 * f + 2]

\* C8: for a full-size array the id read for cell f is array[f] (Byte), the
\* low nibble of array[f div 2] for even f and its high nibble for odd f
\* (HalfByte), the big-endian 16-bit value at array[2f], array[2f+1] (Short);
\* block and fluid-type lookups read the same id.
C8_PaletteIdRead ==
    LET f == lcell[2] * 1024 + lcell[3] * 32 + lcell[1] IN
    /\ lblock # NotCalled => lblock = Ok(StoredId(larray, ltype, f))
    /\ lfluid # NotCalled => lfluid = Ok(StoredId(larray, ltype, f))

\* C8 witness: an odd cell of a HalfByte array whose byte has two different
\* nibbles was read by both lookups.
C8_Witness ==
    /\ ltype = 1 /\ lcell = <<1, 0, 0>>
    /\ larray[1] % 16 # larray[1] \div 16
    /\ lblock = Ok(larray[1] \div 16) /\ lfluid = lblock

-----------------------------------------------------------------------------
(***************************************************************************)
(* SpecTints: parse_biome_tints decodes the heightmap and the biome tints  *)
(* of a chunk's BlockChunk.Data blob.                                      *)
(***************************************************************************)

\* reader.read(n) at position pos: up to n bytes, fewer at the end of the buffer.
Read(data, pos, n) == SubSeq(data, pos + 1, Min(pos + n, Len(data)))

ColumnCount == 1024

\* Height loop: the 10-bit value of entry i, or "skip" when the guard
\* byte_offset + 1 < len(height_packed_data) fails.
MutUnpackHeightIndex(packed, i) ==
    LET bit_offset  == i * 10
        byte_offset == bit_offset \div 8
        bit_in_byte == bit_offset % 8
    IN  IF byte_offset + 2 < Len(packed) THEN
            LET byte1 == packed[byte_offset + 1]
                byte2 == IF byte_offset + 1 < Len(packed)
                         THEN packed[byte_offset + 2] ELSE 0
            IN  Ok(BitAnd(BitOr(Shr(byte1, bit_in_byte),
                                Shl(byte2, 8 - bit_in_byte)), 1023))
        ELSE [kind |-> "skip", val |-> 0]

UnpackHeightIndex(packed, i) ==
    LET bit_offset  == i * 10
        byte_offset == bit_offset \div 8
        bit_in_byte == bit_offset % 8
    IN  IF byte_offset + 1 < Len(packed) THEN
            LET byte1 == packed[byte_offset + 1]
                byte2 == IF byte_offset + 1 < Len(packed)
                         THEN packed[byte_offset + 2] ELSE 0
            IN  Ok(BitAnd(BitOr(Shr(byte1, bit_in_byte),
                                Shl(byte2, 8 - bit_in_byte)), 1023))
        ELSE [kind |-> "skip", val |-> 0]

\* Tint loop: the same extraction, written a second time in the source.
UnpackTintIndex(packed, i) ==
    LET bit_offset  == i * 10
        byte_offset == bit_offset \div 8
        bit_in_byte == bit_offset % 8
    IN  IF byte_offset + 1 < Len(packed) THEN
            LET byte1 == packed[byte_offset + 1]
                byte2 == IF byte_offset + 1 < Len(packed)
                         THEN packed[byte_offset + 2] ELSE 0
            IN  Ok(BitAnd(BitOr(Shr(byte1, bit_in_byte),
                                Shl(byte2, 8 - bit_in_byte)), 1023))
        ELSE [kind |-> "skip", val |-> 0]

\* Height loop: x = i % 32, z = i // 32; returned as <<z, x>>.
HeightColumn(i) == <<i \div 32, i % 32>>

\* Tint loop: z = i % 32, x = i // 32; returned as <<z, x>>.
MutTintColumn(i) == <<i \div 32, i % 32>>

TintColumn(i) == <<i % 32, i \div 32>>

\* grid[z][x] = v on a list of lists: IndexError outside the lists.
GridSet(grid, z, x, v) ==
    IF z \in DOMAIN grid /\ x \in DOMAIN grid[z]
    THEN Ok([grid EXCEPT ![z][x] = v])
    ELSE Raise("IndexError")

\* Body of the height loop for entry i: heightmap[z][x] = palette value or 0.
HeightLoopBody(i, packed, height_palette, heightmap) ==
    LET e == UnpackHeightIndex(packed, i) IN
    IF e.kind = "skip" THEN Ok(heightmap)
    ELSE LET zx == HeightColumn(i)
             h  == IF e.val < Len(height_palette)
                   THEN height_palette[e.val + 1] ELSE 0
         IN  GridSet(heightmap, zx[1], zx[2], h)

\* for i in range(lo, hi) of the height loop, in ascending order of i (the
\* range is split in two halves run one after the other); an exception ends it.
RECURSIVE HeightLoop(_, _, _, _, _)
HeightLoop(lo, hi, packed, height_palette, heightmap) ==
    IF hi <= lo THEN Ok(heightmap)
    ELSE IF hi = lo + 1 THEN HeightLoopBody(lo, packed, height_palette, heightmap)
    ELSE LET mid   == (lo + hi) \div 2
             first == HeightLoop(lo, mid, packed, height_palette, heightmap)
         IN  IF first.kind = "raise" THEN first
             ELSE HeightLoop(mid, hi, packed, height_palette, first.val)

\* Body of the tint loop for entry i: tint_colors[z][x] = palette colour or white.
TintLoopBody(i, packed, tint_palette, tint_colors) ==
    LET e == UnpackTintIndex(packed, i) IN
    IF e.kind = "skip" THEN Ok(tint_colors)
    ELSE LET zx == TintColumn(i)
             c  == IF e.val < Len(tint_palette)
                   THEN tint_palette[e.val + 1] ELSE <<255, 255, 255>>
         IN  GridSet(tint_colors, zx[1], zx[2], c)

\* for i in range(lo, hi) of the tint loop, in ascending order of i.
RECURSIVE TintLoop(_, _, _, _, _)
TintLoop(lo, hi, packed, tint_palette, tint_colors) ==
    IF hi <= lo THEN Ok(tint_colors)
    ELSE IF hi = lo + 1 THEN TintLoopBody(lo, packed, tint_palette, tint_colors)
    ELSE LET mid   == (lo + hi) \div 2
             first == TintLoop(lo, mid, packed, tint_palette, tint_colors)
         IN  IF first.kind = "raise" THEN first
             ELSE TintLoop(mid, hi, packed, tint_palette, first.val)

\* (r, g, b) of a palette entry: (rgb_int >> 16) & 0xFF, (rgb_int >> 8) & 0xFF, rgb_int & 0xFF
TintRGB(rgb_int) ==
    <<BitAnd(Shr(rgb_int, 16), 255), BitAnd(Shr(rgb_int, 8), 255), BitAnd(rgb_int, 255)>>

\* None, as the value of a tint_colors cell never written (an empty tuple).
NoColor == <<>>

\* parse_biome_tints, after the 'BlockChunk' test.  The two palette loops
\* read count entries of fixed size; struct.unpack raises at the first entry
\* the buffer does not hold in full.
ParseBlockChunkData(data) ==
    IF Len(Read(data, 0, 1)) # 1 THEN Raise("struct.error") ELSE
    IF Len(Read(data, 1, 2)) # 2 THEN Raise("struct.error") ELSE
    LET height_count == LittleEndian(Read(data, 1, 2))
        p1 == 3 + 2 * height_count
    IN
    IF Len(data) < p1 THEN Raise("struct.error") ELSE
    LET height_palette ==
            [k \in 1 .. height_count |-> LittleEndian(Read(data, 3 + 2 * (k - 1), 2))]
    IN
    IF Len(Read(data, p1, 4)) # 4 THEN Raise("struct.error") ELSE
    LET height_packed_len  == LittleEndian(Read(data, p1, 4))
        height_packed_data == Read(data, p1 + 4, height_packed_len)
        p2 == p1 + 4 + Len(height_packed_data)
        heights == HeightLoop(0, ColumnCount, height_packed_data, height_palette,
                              [z \in 0 .. 31 |-> [x \in 0 .. 31 |-> 0]])
    IN
    IF heights.kind = "raise" THEN heights ELSE
    IF Len(Read(data, p2, 2)) # 2 THEN Raise("struct.error") ELSE
    LET tint_count == LittleEndian(Read(data, p2, 2))
        p3 == p2 + 2 + 4 * tint_count
    IN
    IF Len(data) < p3 THEN Raise("struct.error") ELSE
    LET tint_palette ==
            [k \in 1 .. tint_count |->
                TintRGB(LittleEndian(Read(data, p2 + 2 + 4 * (k - 1), 4)))]
    IN
    IF Len(Read(data, p3, 4)) # 4 THEN Raise("struct.error") ELSE
    LET tint_packed_len  == LittleEndian(Read(data, p3, 4))
        tint_packed_data == Read(data, p3 + 4, tint_packed_len)
        tints == TintLoop(0, ColumnCount, tint_packed_data, tint_palette,
                          [z \in 0 .. 31 |-> [x \in 0 .. 31 |-> NoColor]])
    IN
    IF tints.kind = "raise" THEN tints
    ELSE Ok([heightmap |-> heights.val, tint_colors |-> tints.val])

\* parse_biome_tints(chunk_data): None when the chunk has no BlockChunk.
ParseBiomeTints(components) ==
    IF ~components.has_block_chunk THEN [kind |-> "None", val |-> 0]
    ELSE ParseBlockChunkData(components.data)

\* ---- inputs of SpecTints ----
\* Entry i of a packed array holds (i * mul + add) mod 1024.
ValuePatterns == {<<1, 0>>, <<0, 1023>>, <<683, 341>>}
EntryValue(p, i) == (p[1] * i + p[2]) % 1024

\* Palette sizes: every 10-bit value has an entry, or only the first few have.
ShortPalette == 3
PaletteCounts == {ColumnCount, ShortPalette}
\* Lengths of the packed data: full, one byte short, half.
PackedLens == {1280, 1279, 640}

\* The i-th entry written to the height palette (a uint16) and to the tint
\* palette (a uint32, 0xRRGGBB); both are one-to-one on 0..1023.
HeightEntry(k) == 3 * k + 11
TintEntry(k)   == 4099 * k + 17

LE16(n) == <<n % 256, (n \div 256) % 256>>
LE32(n) == <<n % 256, (n \div 256) % 256, (n \div 65536) % 256, (n \div 16777216) % 256>>

\* 1024 ten-bit values packed contiguously, entry i at bit offset i * 10,
\* least significant bit first: bit j of the stream is bit (j mod 10) of
\* entry (j div 10), and bit b of byte k is bit 8k + b of the stream.
StreamBit(p, j) == (EntryValue(p, j \div 10) \div (2 ^ (j % 10))) % 2
PackedByte(p, k) ==
    StreamBit(p, 8 * k) + 2 * StreamBit(p, 8 * k + 1) + 4 * StreamBit(p, 8 * k + 2)
    + 8 * StreamBit(p, 8 * k + 3) + 16 * StreamBit(p, 8 * k + 4)
    + 32 * StreamBit(p, 8 * k + 5) + 64 * StreamBit(p, 8 * k + 6)
    + 128 * StreamBit(p, 8 * k + 7)
Pack10(p, len) == [k \in 1 .. len |-> PackedByte(p, k - 1)]

\* The BlockChunk.Data blob: needsPhysics, height palette, packed heights,
\* tint palette, packed tints; every integer little-endian.
BlockChunkBlob(g) ==
    <<1>>
    \o LE16(g.hcount)
    \o [j \in 1 .. 2 * g.hcount |-> LE16(HeightEntry((j - 1) \div 2))[((j - 1) % 2) + 1]]
    \o LE32(g.len) \o Pack10(g.hp, g.len)
    \o LE16(g.tcount)
    \o [j \in 1 .. 4 * g.tcount |-> LE32(TintEntry((j - 1) \div 4))[((j - 1) % 4) + 1]]
    \o LE32(g.len) \o Pack10(g.tp, g.len)

Generators ==
    [hp : ValuePatterns, tp : ValuePatterns, hcount : PaletteCounts,
     tcount : PaletteCounts, len : PackedLens]

InitTints ==
    /\ tgen \in Generators
    /\ \E has \in BOOLEAN :
          tchunk = [has_block_chunk |-> has,
                    data |-> IF has THEN BlockChunkBlob(tgen) ELSE <<>>]
    /\ tret = NotCalled
    /\ IdleCell /\ IdleLookup /\ IdleFluid /\ IdleParse /\ IdleSurface /\ IdleRegion
    /\ IdleColumn
    /\ IdleBlend
    /\ IdleHeader
    /\ IdleShade
    /\ IdleColor
    /\ IdleMap
    /\ IdleMatch
    /\ IdleScan

ParseBiomeTintsStep ==
    /\ tret = NotCalled
    /\ tret' = ParseBiomeTints(tchunk)
    /\ UNCHANGED <<tgen, tchunk, varsCell, varsLookup, varsFluid, varsParse, varsSurface,
                   varsRegion, varsColumn, varsBlend, varsHeader, varsShade,
                   varsColor, varsMap, varsMatch, varsScan>>

NextTints == ParseBiomeTintsStep

SpecTints == InitTints /\ [][NextTints]_vars

\* What the palettes hold for a 10-bit value v.
HeightOfValue(g, v) == IF v < g.hcount THEN HeightEntry(v) ELSE 0
ColorOfValue(g, v) ==
    IF v < g.tcount
    THEN LET n == TintEntry(v) IN <<(n \div 65536) % 256, (n \div 256) % 256, n % 256>>
    ELSE <<255, 255, 255>>

\* C9: 1024 ten-bit values packed into 1280 bytes are all recovered by the
\* decoder, index 1023 included, in the heightmap loop and in the tint loop:
\* with palettes that are one-to-one on 0..1023 the decoded grids hold, for
\* every entry i, the palette image of exactly the value packed at i.
C9_TenBitRoundTrip ==
    (tret.kind = "ok" /\ tgen.len = 1280
        /\ tgen.hcount = ColumnCount /\ tgen.tcount = ColumnCount) =>
    \A i \in 0 .. 1023 :
        /\ tret.val.heightmap[i \div 32][i % 32] = HeightEntry(EntryValue(tgen.hp, i))
        /\ tret.val.tint_colors[i % 32][i \div 32]
               = ColorOfValue(tgen, EntryValue(tgen.tp, i))

\* C9 witness: a full blob whose last height and tint entries are 1023 and
\* whose other entries differ from them was decoded.
C9_Witness ==
    /\ tret.kind = "ok" /\ tgen.len = 1280
    /\ tgen.hcount = ColumnCount /\ tgen.tcount = ColumnCount
    /\ tgen.hp = <<1, 0>> /\ tgen.tp = <<1, 0>>
    /\ tret.val.heightmap[31][31] = HeightEntry(1023)
    /\ tret.val.heightmap[0][0] = HeightEntry(0)
    /\ tret.val.tint_colors[31][31] = ColorOfValue(tgen, 1023)

\* Entry i lies wholly inside packed data of len bytes.
EntryInside(i, len) == ((i * 10) \div 8) + 1 < len

\* C10: heights[z][x] comes from entry z*32 + x (x = i mod 32, z = i div 32)
\* and tints[z][x] from entry x*32 + z (z = i mod 32, x = i div 32), for every
\* column whose entry lies inside the packed data.
C10_ColumnMapping ==
    tret.kind = "ok" =>
    \A z \in 0 .. 31 : \A x \in 0 .. 31 :
        /\ EntryInside(z * 32 + x, tgen.len) =>
              tret.val.heightmap[z][x]
                  = HeightOfValue(tgen, EntryValue(tgen.hp, z * 32 + x))
        /\ EntryInside(x * 32 + z, tgen.len) =>
              tret.val.tint_colors[z][x]
                  = ColorOfValue(tgen, EntryValue(tgen.tp, x * 32 + z))

\* C10 witness: a decoded chunk in which entry 1 and entry 32 differ, for
\* heights and for tints, so the two conventions are told apart.
C10_Witness ==
    /\ tret.kind = "ok" /\ tgen.hp = <<1, 0>> /\ tgen.tp = <<1, 0>>
    /\ tgen.hcount = ColumnCount /\ tgen.tcount = ColumnCount
    /\ tret.val.heightmap[0][1] = HeightEntry(1)
    /\ tret.val.heightmap[1][0] = HeightEntry(32)
    /\ tret.val.tint_colors[1][0] = ColorOfValue(tgen, 1)
    /\ tret.val.tint_colors[0][1] = ColorOfValue(tgen, 32)
    /\ ColorOfValue(tgen, 1) # ColorOfValue(tgen, 32)

\* The first byte of entry i lies inside packed data of len bytes.
FirstByteInside(i, len) == (i * 10) \div 8 < len

\* The value C20 states for entry i of the data packed from pattern p and cut
\* to len bytes: two consecutive bytes, the second taken as 0 when it lies
\* past the end.
TwoByteValue(p, len, i) ==
    LET byteOffset == (i * 10) \div 8
        bitInByte  == (i * 10) % 8
        byte1 == PackedByte(p, byteOffset)
        byte2 == IF byteOffset + 1 < len THEN PackedByte(p, byteOffset + 1) ELSE 0
    IN  BitAnd(BitOr(Shr(byte1, bitInByte), Shl(byte2, 8 - bitInByte)), 1023)

\* C20: every entry i in 0..1023 whose first byte lies inside the packed
\* buffer is decoded as ((byte1 >> bitInByte) | (byte2 << (8 - bitInByte)))
\* & 0x3FF, the second byte read as 0 when byteOffset + 1 is past the end,
\* and its palette value is assigned to its column: an entry whose first
\* byte is the last byte of the buffer is decoded from that byte alone, in
\* the height loop and in the tint loop.
C20_LoneByteDecoded ==
    tret.kind = "ok" =>
    \A i \in 0 .. 1023 :
        FirstByteInside(i, tgen.len) =>
            /\ tret.val.heightmap[i \div 32][i % 32]
                   = HeightOfValue(tgen, TwoByteValue(tgen.hp, tgen.len, i))
            /\ tret.val.tint_colors[i % 32][i \div 32]
                   = ColorOfValue(tgen, TwoByteValue(tgen.tp, tgen.len, i))

\* The same statement for the entries that lie wholly inside the buffer,
\* which is what the guard byte_offset + 1 < len(packed) lets through.
TwoBytesInsideDecoded ==
    tret.kind = "ok" =>
    \A i \in 0 .. 1023 :
        EntryInside(i, tgen.len) =>
            /\ tret.val.heightmap[i \div 32][i % 32]
                   = HeightOfValue(tgen, TwoByteValue(tgen.hp, tgen.len, i))
            /\ tret.val.tint_colors[i % 32][i \div 32]
                   = ColorOfValue(tgen, TwoByteValue(tgen.tp, tgen.len, i))

-----------------------------------------------------------------------------
(***************************************************************************)
(* Strings and dicts shared by the section decoders.                       *)
(***************************************************************************)

\* bytes.decode('utf-8'): the code points of a well-formed UTF-8 string, a
\* UnicodeDecodeError otherwise (overlong forms, surrogates, values above
\* U+10FFFF, stray or missing continuation bytes).
IsCont(c) == c \in 128 .. 191

Utf8Second(lead) ==
    CASE lead = 224 -> 160 .. 191
      [] lead = 237 -> 128 .. 159
      [] lead = 240 -> 144 .. 191
      [] lead = 244 -> 128 .. 143
      [] OTHER -> 128 .. 191

RECURSIVE Utf8Decode(_)
Utf8Decode(b) ==
    IF Len(b) = 0 THEN Ok(<<>>)
    ELSE
    LET c == b[1]
        n == IF c < 128 THEN 1
             ELSE IF c \in 194 .. 223 THEN 2
             ELSE IF c \in 224 .. 239 THEN 3
             ELSE IF c \in 240 .. 244 THEN 4
             ELSE 0
    IN
    IF n = 0 \/ Len(b) < n THEN Raise("UnicodeDecodeError")
    ELSE IF n >= 2 /\ b[2] \notin Utf8Second(c) THEN Raise("UnicodeDecodeError")
    ELSE IF n >= 3 /\ ~IsCont(b[3]) THEN Raise("UnicodeDecodeError")
    ELSE IF n = 4 /\ ~IsCont(b[4]) THEN Raise("UnicodeDecodeError")
    ELSE
    LET cp == CASE n = 1 -> c
                [] n = 2 -> (c - 192) * 64 + (b[2] - 128)
                [] n = 3 -> (c - 224) * 4096 + (b[2] - 128) * 64 + (b[3] - 128)
                [] n = 4 -> (c - 240) * 262144 + (b[2] - 128) * 4096
                            + (b[3] - 128) * 64 + (b[4] - 128)
        rest == Utf8Decode(SubSeq(b, n + 1, Len(b)))
    IN  IF rest.kind = "raise" THEN rest ELSE Ok(<<cp>> \o rest.val)

\* The strings the code compares names with.
EmptyName == <<69, 109, 112, 116, 121>>      \* "Empty"
StarChar  == 42                              \* "*"

\* A dict: {} and d[k] = v.
EmptyDict == <<>>
DictSet(d, k, v) == [x \in (DOMAIN d) \cup {k} |-> IF x = k THEN v ELSE d[x]]

\* None and a bytes object, as the value of an array that may be None.
NoneArray     == [none |-> TRUE, bytes |-> <<>>]
SomeArray(b)  == [none |-> FALSE, bytes |-> b]

-----------------------------------------------------------------------------
(***************************************************************************)
(* SpecFluid: parse_fluid_section.                                         *)
(***************************************************************************)

LevelArraySize == 16384

FluidRet(type_palette, type_array, level_array, palette_type) ==
    [type_palette |-> type_palette, type_array |-> type_array,
     level_array |-> level_array, palette_type |-> palette_type]

\* One pass of the body of the palette loop, from reader position pos: the
\* entry read and the new position, or the exception a struct.unpack or the
\* decode raises.
FluidPaletteEntry(data, pos, palette_type) ==
    LET idlen == IF palette_type = 3 THEN 2 ELSE 1
        idb   == Read(data, pos, idlen)
    IN
    IF Len(idb) # idlen THEN Raise("struct.error") ELSE
    LET internal_id == BigEndian(idb)
        nlb == Read(data, pos + idlen, 2)
    IN
    IF Len(nlb) # 2 THEN Raise("struct.error") ELSE
    LET name_length == BigEndian(nlb)
        raw  == Read(data, pos + idlen + 2, name_length)
        name == Utf8Decode(raw)
        p2   == pos + idlen + 2 + Len(raw)
    IN
    IF name.kind = "raise" THEN name ELSE
    IF Len(Read(data, p2, 2)) # 2 THEN Raise("struct.error")
    ELSE Ok([id |-> internal_id, name |-> name.val, pos |-> p2 + 2])

\* The except clause of the palette loop without its return: the exception escapes.
MutFluidExcept(type_palette, palette_type, exc) == Raise(exc)

\* except: return type_palette, None, None, palette_type
FluidExcept(type_palette, palette_type, exc) ==
    [kind |-> "return", val |-> FluidRet(type_palette, NoneArray, NoneArray, palette_type)]

\* for i in range(palette_size): ... ; gives the palette and the reader
\* position after the loop, or what the except clause does.
RECURSIVE FluidPaletteLoop(_, _, _, _, _, _)
FluidPaletteLoop(data, pos, palette_type, palette_size, i, type_palette) ==
    IF i >= palette_size THEN Ok([type_palette |-> type_palette, pos |-> pos])
    ELSE LET e == FluidPaletteEntry(data, pos, palette_type) IN
         IF e.kind = "raise" THEN FluidExcept(type_palette, palette_type, e.val)
         ELSE FluidPaletteLoop(data, e.val.pos, palette_type, palette_size, i + 1,
                               DictSet(type_palette, e.val.id, e.val.name))

\* parse_fluid_section(fluid_data): Ok(the 4-tuple returned) or the exception raised.
ParseFluidSection(fluid_data) ==
    IF Len(fluid_data) < 3 THEN Ok(FluidRet(EmptyDict, NoneArray, NoneArray, 0)) ELSE
    LET palette_type_bytes == Read(fluid_data, 0, 1) IN
    IF Len(palette_type_bytes) < 1 THEN Ok(FluidRet(EmptyDict, NoneArray, NoneArray, 0)) ELSE
    LET palette_type == BigEndian(palette_type_bytes)
        palette_size_bytes == Read(fluid_data, 1, 2)
    IN
    IF Len(palette_size_bytes) < 2 THEN Ok(FluidRet(EmptyDict, NoneArray, NoneArray, 0)) ELSE
    LET palette_size == BigEndian(palette_size_bytes)
        loop == FluidPaletteLoop(fluid_data, 3, palette_type, palette_size, 0, EmptyDict)
    IN
    IF loop.kind = "raise" THEN loop
    ELSE IF loop.kind = "return" THEN Ok(loop.val)
    ELSE
    LET type_palette == loop.val.type_palette
        pos == loop.val.pos
        none == Ok(FluidRet(type_palette, NoneArray, NoneArray, palette_type))
    IN
    IF palette_type = 0 THEN none
    ELSE IF palette_type \notin {1, 2, 3} THEN none
    ELSE
    LET type_array == Read(fluid_data, pos, ArraySize(palette_type)) IN
    IF Len(type_array) = 0 THEN none
    ELSE
    LET level_array == Read(fluid_data, pos + Len(type_array), LevelArraySize) IN
    IF Len(level_array) < LevelArraySize THEN none
    ELSE Ok(FluidRet(type_palette, SomeArray(type_array), SomeArray(level_array),
                     palette_type))

\* ---- inputs of SpecFluid ----
BE16(n) == <<(n \div 256) % 256, n % 256>>

WaterBytes == <<87, 97, 116, 101, 114>>      \* "Water"
EmptyBytes == <<69, 109, 112, 116, 121>>     \* "Empty"
BadUtf8    == <<87, 255>>                    \* not UTF-8

\* Palettes written to a fluid blob: none, two well-formed entries, an entry
\* whose name is not UTF-8.
FluidPalettes ==
    << <<>>,
       <<[id |-> 0, name |-> EmptyBytes, count |-> 32000],
         [id |-> 1, name |-> WaterBytes, count |-> 768]>>,
       <<[id |-> 0, name |-> EmptyBytes, count |-> 0],
         [id |-> 1, name |-> BadUtf8, count |-> 1]>> >>

\* An entry as stored: id (two bytes for Short, else one), name length, name, count.
PaletteEntryBytes(ptype, e) ==
    (IF ptype = 3 THEN BE16(e.id) ELSE <<e.id>>)
    \o BE16(Len(e.name)) \o e.name \o BE16(e.count)

RECURSIVE PaletteBytes(_, _)
PaletteBytes(ptype, es) ==
    IF es = <<>> THEN <<>>
    ELSE PaletteEntryBytes(ptype, Head(es)) \o PaletteBytes(ptype, Tail(es))

\* palette_type bytes tried: Empty, HalfByte, Byte, Short, and an unknown one.
UnknownType == 7
FluidTypes == {0, 1, 2, 3, UnknownType}
\* The palette length field may claim up to MaxExtra entries more than are stored.
MaxExtra == 1

FluidHead(g) ==
    <<g.ptype>> \o BE16(Len(FluidPalettes[g.cfg]) + g.extra)
    \o PaletteBytes(g.ptype, FluidPalettes[g.cfg])

\* A whole fluid blob: header, palette, type array, level array.
FluidBlob(g) ==
    FluidHead(g) \o PatternArray(<<7, 0>>, ArraySize(g.ptype))
    \o PatternArray(<<37, 201>>, LevelArraySize)

\* Lengths a blob is cut to: every length up to just past the palette, and
\* the lengths around the end of the type array and of the level array.
FluidCuts(g) ==
    LET h == Len(FluidHead(g))
        a == ArraySize(g.ptype)
        t == h + a + LevelArraySize
    IN  (0 .. (h + 1)) \cup {h + a - 1, h + a, h + a + 1, t - 1, t}

InitFluid ==
    /\ \E ptype \in FluidTypes, cfg \in DOMAIN FluidPalettes, extra \in 0 .. MaxExtra :
         LET g == [ptype |-> ptype, cfg |-> cfg, extra |-> extra] IN
         \E cut \in FluidCuts(g) :
            /\ fgen = [ptype |-> ptype, cfg |-> cfg, extra |-> extra, cut |-> cut,
                       head |-> Len(FluidHead(g)),
                       total |-> Len(FluidHead(g)) + ArraySize(ptype) + LevelArraySize]
            /\ fdata = SubSeq(FluidBlob(g), 1, cut)
    /\ fret = NotCalled
    /\ IdleCell /\ IdleLookup /\ IdleTints /\ IdleParse /\ IdleSurface /\ IdleRegion
    /\ IdleColumn
    /\ IdleBlend
    /\ IdleHeader
    /\ IdleShade
    /\ IdleColor
    /\ IdleMap
    /\ IdleMatch
    /\ IdleScan

ParseFluidSectionStep ==
    /\ fret = NotCalled
    /\ fret' = ParseFluidSection(fdata)
    /\ UNCHANGED <<fgen, fdata, varsCell, varsLookup, varsTints, varsParse, varsSurface,
                   varsRegion, varsColumn, varsBlend, varsHeader, varsShade,
                   varsColor, varsMap, varsMatch, varsScan>>

NextFluid == ParseFluidSectionStep

SpecFluid == InitFluid /\ [][NextFluid]_vars

\* C6: parse_fluid_section returns normally for every input, and for an input
\* that is structurally incomplete (a blob cut short anywhere: in the header,
\* in a palette entry, in the type array or in the level array) the type
\* array and the level array returned are both None.
C6_FluidNeverRaises ==
    fret # NotCalled =>
        /\ fret.kind = "ok"
        /\ fgen.cut < fgen.total =>
              fret.val.type_array.none /\ fret.val.level_array.none

\* C6 witness: a Byte blob cut inside its type array (some of the type array
\* was read, none of the level array) came back with both arrays None and
\* the palette read so far.
C6_Witness ==
    /\ fret.kind = "ok" /\ fgen.ptype = 2 /\ fgen.cfg = 2 /\ fgen.extra = 0
    /\ fgen.cut = fgen.head + ArraySize(2) - 1
    /\ fret.val.type_array.none /\ fret.val.level_array.none
    /\ DOMAIN fret.val.type_palette = {0, 1}

-----------------------------------------------------------------------------
(***************************************************************************)
(* SpecParse: the two decoders of a section's Block.Data blob,             *)
(* parse_block_section (render_chunk.py) and decode_blocks                 *)
(* (getChunkBlocks.py).                                                    *)
(***************************************************************************)

BlockRet(palette, blocks_array, palette_type) ==
    [palette |-> palette, blocks_array |-> blocks_array, palette_type |-> palette_type]

\* Body of the palette loop of parse_block_section from reader position pos:
\* internal_id (two bytes if Short, else one), name_length, name, count.
BlockPaletteEntry(data, pos, palette_type) ==
    LET idlen == IF palette_type = 3 THEN 2 ELSE 1
        idb   == Read(data, pos, idlen)
    IN
    IF Len(idb) # idlen THEN Raise("struct.error") ELSE
    LET internal_id == BigEndian(idb)
        nlb == Read(data, pos + idlen, 2)
    IN
    IF Len(nlb) # 2 THEN Raise("struct.error") ELSE
    LET name_length == BigEndian(nlb)
        raw  == Read(data, pos + idlen + 2, name_length)
        name == Utf8Decode(raw)
        p2   == pos + idlen + 2 + Len(raw)
    IN
    IF name.kind = "raise" THEN name ELSE
    IF Len(Read(data, p2, 2)) # 2 THEN Raise("struct.error")
    ELSE Ok([id |-> internal_id, name |-> name.val, pos |-> p2 + 2])

\* for i in range(palette_size): palette[internal_id] = block_name
RECURSIVE BlockPaletteLoop(_, _, _, _, _, _)
BlockPaletteLoop(data, pos, palette_type, palette_size, i, palette) ==
    IF i >= palette_size THEN Ok([palette |-> palette, pos |-> pos])
    ELSE LET e == BlockPaletteEntry(data, pos, palette_type) IN
         IF e.kind = "raise" THEN e
         ELSE BlockPaletteLoop(data, e.val.pos, palette_type, palette_size, i + 1,
                               DictSet(palette, e.val.id, e.val.name))

\* parse_block_section(section_data): Ok(palette, blocks_array, palette_type)
\* or the exception raised.  reader.read(n) of the array returns what is left.
ParseBlockSection(section_data) ==
    IF Len(Read(section_data, 0, 4)) # 4 THEN Raise("struct.error") ELSE
    IF Len(Read(section_data, 4, 1)) # 1 THEN Raise("struct.error") ELSE
    LET palette_type == BigEndian(Read(section_data, 4, 1)) IN
    IF Len(Read(section_data, 5, 2)) # 2 THEN Raise("struct.error") ELSE
    LET palette_size == BigEndian(Read(section_data, 5, 2))
        loop == BlockPaletteLoop(section_data, 7, palette_type, palette_size, 0, EmptyDict)
    IN
    IF loop.kind = "raise" THEN loop ELSE
    LET palette == loop.val.palette
        pos == loop.val.pos
    IN
    IF palette_type = 0 THEN Ok(BlockRet(palette, NoneArray, palette_type))
    ELSE IF palette_type \in {1, 2, 3}
         THEN Ok(BlockRet(palette,
                          SomeArray(Read(section_data, pos, ArraySize(palette_type))),
                          palette_type))
    ELSE Ok(BlockRet(palette, NoneArray, palette_type))

\* struct's signed formats 'b' and 'h'.
Signed8(n)  == IF n >= 128 THEN n - 256 ELSE n
Signed16(n) == IF n >= 32768 THEN n - 65536 ELSE n

\* b.read(n) of io.BytesIO: a negative n reads everything that is left.
ReadAny(data, pos, n) ==
    IF n < 0 THEN SubSeq(data, pos + 1, Len(data)) ELSE Read(data, pos, n)

\* for i in range(palette_length) of decode_blocks: palette.append(name)
RECURSIVE DecodePaletteLoop(_, _, _, _, _)
DecodePaletteLoop(data, pos, palette_length, i, palette) ==
    IF i >= palette_length THEN Ok(palette)
    ELSE
    IF Len(Read(data, pos, 2)) # 2 THEN Raise("struct.error") ELSE
    LET name_length == Signed16(BigEndian(Read(data, pos, 2)))
        raw  == ReadAny(data, pos + 2, name_length)
        name == Utf8Decode(raw)
        p2   == pos + 2 + Len(raw)
    IN
    IF name.kind = "raise" THEN name ELSE
    IF Len(Read(data, p2, 3)) # 3 THEN Raise("struct.error")
    ELSE DecodePaletteLoop(data, p2 + 3, palette_length, i + 1, Append(palette, name.val))

\* decode_blocks(blocks): the list palette at the end of the function (which
\* logs it and returns nothing), or the exception raised.
DecodeBlocks(blocks) ==
    LET hdr == Read(blocks, 0, 8) IN
    IF Len(hdr) # 8 THEN Raise("struct.error") ELSE
    LET unknown1       == BigEndian(SubSeq(hdr, 1, 4))
        packing_factor == Signed8(hdr[5])
        palette_length == Signed16(BigEndian(SubSeq(hdr, 6, 7)))
        unknown2       == Signed8(hdr[8])
    IN  DecodePaletteLoop(blocks, 8, palette_length, 0, <<>>)

\* ---- inputs of SpecParse ----
BE32(n) == <<(n \div 16777216) % 256, (n \div 65536) % 256, (n \div 256) % 256, n % 256>>

SoilGrassBytes == <<83, 111, 105, 108, 95, 71, 114, 97, 115, 115>>   \* "Soil_Grass"

\* Palettes written to a block blob: none, {0: "Soil_Grass", 1: "Empty"}, and
\* one with a name that is not UTF-8.
BlockPalettes ==
    << <<>>,
       <<[id |-> 0, name |-> SoilGrassBytes, count |-> 1],
         [id |-> 1, name |-> EmptyBytes, count |-> 32767]>>,
       <<[id |-> 0, name |-> EmptyBytes, count |-> 0],
         [id |-> 1, name |-> BadUtf8, count |-> 1]>> >>

\* Layout read by parse_block_section: 7-byte header, then per entry the id,
\* the name length, the name and the count.
CodeLayoutHead(ptype, es) ==
    BE32(10) \o <<ptype>> \o BE16(Len(es)) \o PaletteBytes(ptype, es)

\* Layout documented in decode_blocks: 8-byte header (unknown, packing,
\* palette length, unknown), then per entry the name length, the name, the
\* quantity and one unknown byte; no id is stored.
\* trail[1] is the header's unknown byte, trail[j + 1] the one after entry j.
RECURSIVE DocPaletteBytes(_, _)
DocPaletteBytes(es, trail) ==
    IF es = <<>> THEN <<>>
    ELSE BE16(Len(Head(es).name)) \o Head(es).name \o BE16(Head(es).count)
         \o <<Head(trail)>> \o DocPaletteBytes(Tail(es), Tail(trail))

DocLayoutHead(ptype, es, trail) ==
    BE32(10) \o <<ptype>> \o BE16(Len(es)) \o <<Head(trail)>>
    \o DocPaletteBytes(es, Tail(trail))

BlockTypes == {0, 1, 2, 3, UnknownType}
\* The bytes the documented layout calls unknown: all equal to one value of
\* 0 .. MaxTrail, or counting 0, 1, 2 from the header's on.
MaxTrail == 1
Trails == {<<v, v, v>> : v \in 0 .. MaxTrail} \cup {<<0, 1, 2>>}

BlockHead(g) ==
    IF g.layout = "code" THEN CodeLayoutHead(g.ptype, BlockPalettes[g.cfg])
    ELSE DocLayoutHead(g.ptype, BlockPalettes[g.cfg], g.trail)

BlockBlob(g) == BlockHead(g) \o PatternArray(<<7, 0>>, ArraySize(g.ptype))

\* Lengths a block blob is cut to: every length up to just past the palette,
\* and the lengths around the end of the index array.
BlockCuts(g) ==
    LET h == Len(BlockHead(g))
        t == h + ArraySize(g.ptype)
    IN  ((0 .. (h + 1)) \cup {t - 1, t}) \cap (0 .. t)

BlockGenerators ==
    [layout : {"code"}, ptype : BlockTypes, cfg : DOMAIN BlockPalettes, trail : {<<>>}]
    \cup [layout : {"doc"}, ptype : BlockTypes, cfg : DOMAIN BlockPalettes,
          trail : Trails]

InitParse ==
    /\ \E g \in BlockGenerators : \E cut \in BlockCuts(g) :
          /\ pgen = [layout |-> g.layout, ptype |-> g.ptype, cfg |-> g.cfg,
                     trail |-> g.trail, cut |-> cut, head |-> Len(BlockHead(g)),
                     total |-> Len(BlockHead(g)) + ArraySize(g.ptype)]
          /\ pdata = SubSeq(BlockBlob(g), 1, cut)
    /\ pret = NotCalled /\ pdec = NotCalled
    /\ IdleCell /\ IdleLookup /\ IdleTints /\ IdleFluid /\ IdleSurface /\ IdleRegion
    /\ IdleColumn
    /\ IdleBlend
    /\ IdleHeader
    /\ IdleShade
    /\ IdleColor
    /\ IdleMap
    /\ IdleMatch
    /\ IdleScan

ParseBlockSectionStep ==
    /\ pret = NotCalled
    /\ pret' = ParseBlockSection(pdata)
    /\ UNCHANGED <<pgen, pdata, pdec, varsCell, varsLookup, varsTints, varsFluid, varsSurface,
                   varsRegion, varsColumn, varsBlend, varsHeader, varsShade,
                   varsColor, varsMap, varsMatch, varsScan>>

DecodeBlocksStep ==
    /\ pdec = NotCalled
    /\ pdec' = DecodeBlocks(pdata)
    /\ UNCHANGED <<pgen, pdata, pret, varsCell, varsLookup, varsTints, varsFluid, varsSurface,
                   varsRegion, varsColumn, varsBlend, varsHeader, varsShade,
                   varsColor, varsMap, varsMatch, varsScan>>

NextParse == ParseBlockSectionStep \/ DecodeBlocksStep

SpecParse == InitParse /\ [][NextParse]_vars

\* The names of palette cfg as strings (they are ASCII).
PaletteNames(cfg) == [i \in 1 .. Len(BlockPalettes[cfg]) |-> BlockPalettes[cfg][i].name]

\* C4: for a blob in the documented layout (8-byte header; entries of name
\* length, name, count and a trailing byte) the palette parse_block_section
\* returns maps i to the name of the i-th entry, for every i below the palette
\* length: ids are positional, none is read from the stream.
C4_PositionalPalette ==
    (pret # NotCalled /\ pgen.layout = "doc" /\ pgen.cut = pgen.total /\ pgen.cfg # 3) =>
        /\ pret.kind = "ok"
        /\ DOMAIN pret.val.palette = 0 .. (Len(BlockPalettes[pgen.cfg]) - 1)
        /\ \A i \in DOMAIN pret.val.palette :
              pret.val.palette[i] = PaletteNames(pgen.cfg)[i + 1]

\* decode_blocks does build the positional palette of the documented layout.
DecodeBlocksPositional ==
    (pdec # NotCalled /\ pgen.layout = "doc" /\ pgen.cut = pgen.total /\ pgen.cfg # 3) =>
        pdec = Ok(PaletteNames(pgen.cfg))

\* C5: parse_block_section fails, or returns an index array of exactly the
\* size its encoding fixes (HalfByte 16384, Byte 32768, Short 65536) and no
\* array for the other encodings; a shorter array is never returned.
C5_ExactArrayOrError ==
    pret # NotCalled =>
        \/ pret.kind = "raise"
        \/ /\ pret.val.palette_type \in {1, 2, 3}
           /\ ~pret.val.blocks_array.none
           /\ Len(pret.val.blocks_array.bytes) = ArraySize(pret.val.palette_type)
        \/ /\ pret.val.palette_type \notin {1, 2, 3}
           /\ pret.val.blocks_array.none

-----------------------------------------------------------------------------
(***************************************************************************)
(* SpecSurface: find_surface_height over a chunk document.                 *)
(***************************************************************************)

\* get_block_at(palette, blocks_array, palette_type, x, y, z): the name, or
\* an IndexError / struct.error when the array is too short for the cell.
GetBlockAt(palette, blocks_array, palette_type, x, y, z) ==
    IF blocks_array.none THEN Ok(EmptyName)
    ELSE LET id == BlockInternalId(blocks_array.bytes, palette_type, BlockFlatIdx(x, y, z)) IN
         IF id.kind = "raise" THEN id
         ELSE IF id.kind = "else" THEN Ok(EmptyName)
         ELSE Ok(IF id.val \in DOMAIN palette THEN palette[id.val] ELSE EmptyName)

\* "Skip air blocks" without the test for a leading "*"
MutIsAir(block_name) == block_name = EmptyName

\* "Skip air blocks": block_name == "Empty" or block_name.startswith("*")
IsAir(block_name) ==
    block_name = EmptyName \/ (Len(block_name) >= 1 /\ block_name[1] = StarChar)

\* for local_y in range(31, -1, -1) from local_y down: the first cell that is
\* not air as Ok(<<local_y, name>>), "none" when the loop ends without one.
RECURSIVE ColumnScan(_, _, _, _)
ColumnScan(parsed, x, z, local_y) ==
    IF local_y < 0 THEN [kind |-> "none", val |-> 0]
    ELSE LET block_name == GetBlockAt(parsed.palette, parsed.blocks_array,
                                      parsed.palette_type, x, local_y, z) IN
         IF block_name.kind = "raise" THEN block_name
         ELSE IF IsAir(block_name.val) THEN ColumnScan(parsed, x, z, local_y - 1)
         ELSE Ok(<<local_y, block_name.val>>)

\* for section_idx in range(9, -1, -1) from section_idx down.
RECURSIVE SectionScan(_, _, _, _)
SectionScan(sections, x, z, section_idx) ==
    IF section_idx < 0 THEN Ok(<<0, EmptyName, 0>>)
    ELSE IF section_idx \notin DOMAIN sections THEN Raise("IndexError")
    ELSE LET section == sections[section_idx] IN
         IF ~section.has_block THEN SectionScan(sections, x, z, section_idx - 1)
         ELSE LET parsed == ParseBlockSection(section.data) IN
              IF parsed.kind = "raise" THEN parsed
              ELSE IF parsed.val.blocks_array.none
                   THEN SectionScan(sections, x, z, section_idx - 1)
              ELSE LET hit == ColumnScan(parsed.val, x, z, 31) IN
                   IF hit.kind = "raise" THEN hit
                   ELSE IF hit.kind = "none"
                        THEN SectionScan(sections, x, z, section_idx - 1)
                   ELSE Ok(<<section_idx * 32 + hit.val[1], hit.val[2], section_idx>>)

\* find_surface_height(chunk_data, x, z)
FindSurfaceHeight(sections, x, z) == SectionScan(sections, x, z, 9)

\* ---- inputs of SpecSurface ----
StarBytes == <<42, 87>>                      \* "*W"
RockBytes == <<82, 111, 99, 107>>            \* "Rock"

\* Palette of the sections written in the layout parse_block_section reads;
\* id UnmappedId is stored in cells but has no palette entry.
SurfacePalette ==
    <<[id |-> 0, name |-> EmptyBytes, count |-> 0],
      [id |-> 1, name |-> SoilGrassBytes, count |-> 1],
      [id |-> 2, name |-> StarBytes, count |-> 1],
      [id |-> 3, name |-> RockBytes, count |-> 1]>>
UnmappedId == 4

\* The cell index of the format: y * 1024 + z * 32 + x.
CellIndex(x, y, z) == y * 1024 + z * 32 + x

\* cells is a set of <<x, y, z, id>>; every other cell holds id fill.
IdAt(cells, fill, f) ==
    IF \E c \in cells : CellIndex(c[1], c[2], c[3]) = f
    THEN (CHOOSE c \in cells : CellIndex(c[1], c[2], c[3]) = f)[4]
    ELSE fill

\* The index array of a section in encoding ptype.
SectionArray(ptype, cells, fill) ==
    IF ptype = 1
    THEN [k \in 1 .. 16384 |->
             IdAt(cells, fill, 2 * (k - 1)) + 16 * IdAt(cells, fill, 2 * (k - 1) + 1)]
    ELSE IF ptype = 2
    THEN [k \in 1 .. 32768 |-> IdAt(cells, fill, k - 1)]
    ELSE IF ptype = 3
    THEN [k \in 1 .. 65536 |->
             IF (k - 1) % 2 = 0 THEN IdAt(cells, fill, (k - 1) \div 2) \div 256
             ELSE IdAt(cells, fill, (k - 1) \div 2) % 256]
    ELSE <<>>

NoBlock == [has_block |-> FALSE, data |-> <<>>]
BlockSection(data) == [has_block |-> TRUE, data |-> data]

CodeSection(ptype, cells) ==
    BlockSection(CodeLayoutHead(ptype, SurfacePalette) \o SectionArray(ptype, cells, 0))

\* Cells of the lower section of a generated chunk: "Soil_Grass" at
\* (x1, y1, z1), "Rock" at the bottom of that column and at the top of the
\* next column in x.
LowerCells(g) ==
    {<<g.x1, g.y1, g.z1, 1>>, <<(g.x1 + 1) % 32, 31, g.z1, 3>>}
    \cup (IF g.y1 > 0 THEN {<<g.x1, 0, g.z1, 3>>} ELSE {})

\* Cells of the higher section: the unmapped id on top of column (x1, z1);
\* a "*" name at (x1, y2, z1); "Rock" at (x1, y2, z1) with a "*" name on top.
UpperCells(g) ==
    IF g.hikind = "air" THEN {<<g.x1, 31, g.z1, UnmappedId>>}
    ELSE IF g.hikind = "star" THEN {<<g.x1, g.y2, g.z1, 2>>}
    ELSE IF g.hikind = "solid"
    THEN {<<g.x1, g.y2, g.z1, 3>>} \cup (IF g.y2 < 31 THEN {<<g.x1, 31, g.z1, 2>>} ELSE {})
    ELSE {}

\* The lower section is absent or Byte-encoded.
LowerSection(g) ==
    IF g.lokind = "absent" THEN NoBlock ELSE CodeSection(2, LowerCells(g))

\* The higher section is absent, or has encoding Empty, HalfByte ("air"),
\* Byte ("star") or Short ("solid").
UpperSection(g) ==
    IF g.hikind = "absent" THEN NoBlock
    ELSE IF g.hikind = "emptytype" THEN CodeSection(0, {})
    ELSE IF g.hikind = "air" THEN CodeSection(1, UpperCells(g))
    ELSE IF g.hikind = "star" THEN CodeSection(2, UpperCells(g))
    ELSE CodeSection(3, UpperCells(g))

\* A section in the layout documented in decode_blocks, palette
\* {0: "Soil_Grass", 1: "Empty"}, Byte-encoded, every cell 1 except
\* (x0, y0, z0) which holds 0.
DocSection(g) ==
    BlockSection(DocLayoutHead(2, BlockPalettes[2], g.trail)
                 \o SectionArray(2, {<<g.x0, g.y0, g.z0, 0>>}, 1))

SectionGap == 5
LowerIndexes == {0, 9 - SectionGap}
SurfaceColumns == {<<5, 10>>, <<31, 0>>}
DocHeights == SampleCoords \cup {20}

CodeGenerators ==
    {[kind |-> "code", lo |-> lo, lokind |-> lk, hikind |-> hk,
      x1 |-> c[1], z1 |-> c[2], y1 |-> y1, y2 |-> y2] :
        lo \in LowerIndexes, lk \in {"absent", "solid"},
        hk \in {"absent", "emptytype", "air", "star", "solid"},
        c \in SurfaceColumns, y1 \in SampleCoords, y2 \in {0, 31}}

DocGenerators ==
    {[kind |-> "doc", x0 |-> c[1], z0 |-> c[2], y0 |-> y0, trail |-> t] :
        c \in SurfaceColumns, y0 \in DocHeights, t \in Trails}

\* chunk_data["Components"]["ChunkColumn"]["Sections"]: ten sections.
Sections(g) ==
    IF g.kind = "code"
    THEN [s \in 0 .. 9 |-> IF s = g.lo THEN LowerSection(g)
                           ELSE IF s = g.lo + SectionGap THEN UpperSection(g)
                           ELSE NoBlock]
    ELSE [s \in 0 .. 9 |-> IF s = 0 THEN DocSection(g) ELSE NoBlock]

\* Columns asked for: the one the generator wrote to and its neighbours.
QueryColumns(x, z) == {<<x, z>>, <<(x + 1) % 32, z>>, <<x, (z + 1) % 32>>}

InitSurface ==
    /\ sgen \in CodeGenerators \cup DocGenerators
    /\ sdoc = Sections(sgen)
    /\ scol \in (IF sgen.kind = "code" THEN QueryColumns(sgen.x1, sgen.z1)
                 ELSE QueryColumns(sgen.x0, sgen.z0))
    /\ sret = NotCalled
    /\ IdleCell /\ IdleLookup /\ IdleTints /\ IdleFluid /\ IdleParse /\ IdleRegion
    /\ IdleColumn
    /\ IdleBlend
    /\ IdleHeader
    /\ IdleShade
    /\ IdleColor
    /\ IdleMap
    /\ IdleMatch
    /\ IdleScan

FindSurfaceHeightStep ==
    /\ sret = NotCalled
    /\ sret' = FindSurfaceHeight(sdoc, scol[1], scol[2])
    /\ UNCHANGED <<sgen, sdoc, scol, varsCell, varsLookup, varsTints, varsFluid, varsParse,
                   varsRegion, varsColumn, varsBlend, varsHeader, varsShade,
                   varsColor, varsMap, varsMatch, varsScan>>

NextSurface == FindSurfaceHeightStep

SpecSurface == InitSurface /\ [][NextSurface]_vars

\* The cells of a generated chunk that hold a name other than "Empty" and
\* without a leading "*", as <<section, x, y, z, id>>.
SolidIds == {1, 3}
SolidCells(g) ==
    {<<g.lo, c[1], c[2], c[3], c[4]>> :
        c \in {d \in LowerCells(g) : g.lokind = "solid" /\ d[4] \in SolidIds}}
    \cup {<<g.lo + SectionGap, c[1], c[2], c[3], c[4]>> :
        c \in {d \in UpperCells(g) : d[4] \in SolidIds}}

\* The highest of them in column (x, z), or the default.
ExpectedSurface(g, x, z) ==
    LET col == {c \in SolidCells(g) : c[2] = x /\ c[4] = z} IN
    IF col = {} THEN <<0, EmptyBytes, 0>>
    ELSE LET top == CHOOSE c \in col :
                       \A d \in col : d[1] * 32 + d[3] <= c[1] * 32 + c[3]
         IN  <<top[1] * 32 + top[3], SurfacePalette[top[5] + 1].name, top[1]>>

\* C2: for a chunk of ten sections, find_surface_height returns
\* (s * 32 + y, name, s) for the highest cell (s, y) of the column whose name
\* is neither "Empty" nor starts with "*", skipping sections without Block
\* data, and (0, "Empty", 0) when the column has no such cell.
C2_SurfaceHeight ==
    (sret # NotCalled /\ sgen.kind = "code") =>
        sret = Ok(ExpectedSurface(sgen, scol[1], scol[2]))

\* A "Soil_Grass" found in the lower section, below a section holding a "*"
\* name in the same column; and an all-absent chunk's default.
C2_Witness ==
    /\ sgen.kind = "code" /\ sgen.lokind = "solid" /\ sgen.hikind = "star"
    /\ sgen.lo = 9 - SectionGap /\ sgen.y1 = 1
    /\ scol = <<sgen.x1, sgen.z1>>
    /\ sret = Ok(<<sgen.lo * 32 + 1, SoilGrassBytes, sgen.lo>>)

\* C3: for a chunk whose only block section is in the documented layout
\* (8-byte header, positional palette {0: "Soil_Grass", 1: "Empty"}, Byte
\* encoding), every cell 1 except (x0, y0, z0) holding 0, find_surface_height
\* gives (y0, "Soil_Grass", 0) at column (x0, z0) and (0, "Empty", 0) at
\* every other column.
C3_DocumentedLayoutSurface ==
    (sret # NotCalled /\ sgen.kind = "doc") =>
        sret = Ok(IF scol = <<sgen.x0, sgen.z0>>
                  THEN <<sgen.y0, SoilGrassBytes, 0>>
                  ELSE <<0, EmptyBytes, 0>>)

-----------------------------------------------------------------------------
(***************************************************************************)
(* SpecRegion: read_chunk_data on region files.                            *)
(*                                                                         *)
(* A region file is described by a record g and read through FileByte and  *)
(* FileLen: header, location table of 1024 entries, then the blobs, each   *)
(* at segment * segment_size + 32.  Positions stay below 2^31.             *)
(***************************************************************************)
HEADER_LENGTH == 32

\* A region is RegionSide x RegionSide chunks, one table entry each.
RegionSide == 32
TableEntries == RegionSide * RegionSide
\* Segments of four different bytes, 0x01020304 and up.
WideBase == BigEndian(<<1, 2, 3, 4>>)

\* "HytaleIndexedStorage"
MagicBytes ==
    <<72, 121, 116, 97, 108, 101, 73, 110, 100, 101, 120, 101, 100,
      83, 116, 111, 114, 97, 103, 101>>
\* "XytaleIndexedStorage", and the same with a first byte of 0xFF
WrongMagic == <<88>> \o SubSeq(MagicBytes, 2, 20)
BinaryMagic == <<255>> \o SubSeq(MagicBytes, 2, 20)
ZstdMagic == <<40, 181, 47, 253>>

\* The 20 bytes a region file starts with.
Magic(g) ==
    CASE g.magic = "good"   -> MagicBytes
      [] g.magic = "wrong"  -> WrongMagic
      [] g.magic = "binary" -> BinaryMagic

\* The segment stored for table entry k.
TableValue(g, k) ==
    CASE g.pat = "zero" -> 0
      [] g.pat = "only" -> IF k = g.k0 THEN 1 ELSE 0
      [] g.pat = "hole" -> IF k = g.k0 THEN 0 ELSE k + 1
      [] g.pat = "wide" -> WideBase + k

\* The largest of them.
MaxSegment(g) ==
    CASE g.pat = "zero" -> 0
      [] g.pat = "only" -> 1
      [] g.pat = "hole" -> TableEntries
      [] g.pat = "wide" -> WideBase + TableEntries - 1

BlobPos(g, segment) == segment * g.segsize + HEADER_LENGTH

\* The compressed frame stored for a segment, and the blob around it.
Frame(segment) == ZstdMagic \o BE32(segment)
Blob(segment) == BE32(64) \o BE32(Len(Frame(segment))) \o Frame(segment)
BlobBytes == Len(Blob(1))

FileHeader(g) == Magic(g) \o BE32(1) \o BE32(TableEntries) \o BE32(g.segsize)

\* The byte at position pos of the full file.
FileByte(g, pos) ==
    IF pos < HEADER_LENGTH THEN FileHeader(g)[pos + 1]
    ELSE IF pos < HEADER_LENGTH + 4 * TableEntries
    THEN BE32(TableValue(g, (pos - HEADER_LENGTH) \div 4))[((pos - HEADER_LENGTH) % 4) + 1]
    ELSE LET segment == (pos - HEADER_LENGTH) \div g.segsize
             off     == (pos - HEADER_LENGTH) % g.segsize
         IN  IF off < BlobBytes /\ segment # 0
                /\ \E k \in 0 .. (TableEntries - 1) : TableValue(g, k) = segment
             THEN Blob(segment)[off + 1]
             ELSE 0

\* The file's length: whole, or cut inside the header, inside table entry
\* k0, inside the sizes of entry k0's blob, or inside its compressed data.
FileLen(g) ==
    CASE g.cut = "full"   -> BlobPos(g, MaxSegment(g)) + BlobBytes
      [] g.cut = "header" -> HEADER_LENGTH - 1
      [] g.cut = "entry"  -> HEADER_LENGTH + 4 * g.k0 + 2
      [] g.cut = "sizes"  -> BlobPos(g, TableValue(g, g.k0)) + 6
      [] g.cut = "frame"  -> BlobPos(g, TableValue(g, g.k0)) + 12

\* f.read(n) at position pos.
FileRead(g, pos, n) ==
    [i \in 1 .. Max(0, Min(n, FileLen(g) - pos)) |-> FileByte(g, pos + i - 1)]

OpOpen(region) == [op |-> "open", at |-> region, n |-> 0]
OpRead(pos, n) == [op |-> "read", at |-> pos, n |-> n]
OpSeek(pos)    == [op |-> "seek", at |-> pos, n |-> 0]

\* zstd.decompress and bson.decode: the document stored in a complete frame,
\* an error for anything else.
Decode(compressed_data) ==
    IF Len(compressed_data) = 8 /\ SubSeq(compressed_data, 1, 4) = ZstdMagic
    THEN Ok([frame |-> compressed_data])
    ELSE Raise("ZstdError")

Called(ret, log) == [ret |-> ret, log |-> log]

\* index_offset with the two coordinates exchanged
MutIndexOffset(relative_x, relative_z) == (relative_z + relative_x * 32) * 4

\* index_offset = (relative_x + relative_z * 32) * 4
IndexOffset(relative_x, relative_z) == (relative_x + relative_z * 32) * 4

\* read_chunk_data, "Read chunk" and "Decompress and decode"
ReadBlob(g, segment, segment_size, log) ==
    LET pos   == segment * segment_size + HEADER_LENGTH
        sizes == FileRead(g, pos, 8)
        log2  == log \o <<OpSeek(pos), OpRead(pos, 8)>>
    IN  IF Len(sizes) # 8 THEN Called(Raise("struct.error"), log2)
        ELSE LET compressed_size == BigEndian(SubSeq(sizes, 5, 8))
                 compressed_data == FileRead(g, pos + 8, compressed_size)
             IN  Called(Decode(compressed_data),
                        log2 \o <<OpRead(pos + 8, compressed_size)>>)

\* read_chunk_data with the region found by a division rounding toward
\* zero, as int(chunk_x * 32 / 1024) would.
MutReadChunkData(g, chunk_x, chunk_z) ==
    LET Toward0(a) == IF a < 0 THEN -((-a) \div 1024) ELSE a \div 1024
        region_x == Toward0(chunk_x * 32)
        region_z == Toward0(chunk_z * 32)
    IN
    IF <<region_x, region_z>> \notin g.regions
    THEN Called([kind |-> "None", val |-> 0], <<>>)
    ELSE
    LET header == FileRead(g, 0, HEADER_LENGTH)
        log1   == <<OpOpen(<<region_x, region_z>>), OpRead(0, HEADER_LENGTH)>>
    IN
    IF Len(header) # 32 THEN Called(Raise("struct.error"), log1)
    ELSE
    LET segment_size == BigEndian(SubSeq(header, 29, 32))
        relative_x   == ((chunk_x * 32) \div 32) % 32
        relative_z   == ((chunk_z * 32) \div 32) % 32
        index_offset == IndexOffset(relative_x, relative_z)
        entry        == FileRead(g, HEADER_LENGTH + index_offset, 4)
        log2         == log1 \o <<OpSeek(HEADER_LENGTH + index_offset),
                                  OpRead(HEADER_LENGTH + index_offset, 4)>>
    IN
    IF Len(entry) # 4 THEN Called(Raise("struct.error"), log2)
    ELSE LET segment == BigEndian(entry) IN
         IF segment = 0 THEN Called([kind |-> "None", val |-> 0], log2)
         ELSE ReadBlob(g, segment, segment_size, log2)

\* read_chunk_data(chunk_x, chunk_z) with the region files of g on disk: the
\* value returned or the exception raised, and the file operations made.
ReadChunkData(g, chunk_x, chunk_z) ==
    LET region_x == (chunk_x * 32) \div 1024
        region_z == (chunk_z * 32) \div 1024
    IN
    IF <<region_x, region_z>> \notin g.regions
    THEN Called([kind |-> "None", val |-> 0], <<>>)
    ELSE
    LET header == FileRead(g, 0, HEADER_LENGTH)
        log1   == <<OpOpen(<<region_x, region_z>>), OpRead(0, HEADER_LENGTH)>>
    IN
    IF Len(header) # 32 THEN Called(Raise("struct.error"), log1)
    ELSE
    LET segment_size == BigEndian(SubSeq(header, 29, 32))
        relative_x   == ((chunk_x * 32) \div 32) % 32
        relative_z   == ((chunk_z * 32) \div 32) % 32
        index_offset == IndexOffset(relative_x, relative_z)
        entry        == FileRead(g, HEADER_LENGTH + index_offset, 4)
        log2         == log1 \o <<OpSeek(HEADER_LENGTH + index_offset),
                                  OpRead(HEADER_LENGTH + index_offset, 4)>>
    IN
    IF Len(entry) # 4 THEN Called(Raise("struct.error"), log2)
    ELSE LET segment == BigEndian(entry) IN
         IF segment = 0 THEN Called([kind |-> "None", val |-> 0], log2)
         ELSE ReadBlob(g, segment, segment_size, log2)

\* getChunkBlocks.read_header(file) on the region file of g: the tuple
\* (magic, version, blob_count, segment_size), magic decoded as UTF-8.
ReadHeader(g) ==
    LET header == FileRead(g, 0, HEADER_LENGTH) IN
    IF Len(header) # 32 THEN Raise("struct.error")
    ELSE LET magic == Utf8Decode(SubSeq(header, 1, 20)) IN
         IF magic.kind = "raise" THEN magic
         ELSE Ok(<<magic.val, BigEndian(SubSeq(header, 21, 24)),
                   BigEndian(SubSeq(header, 25, 28)), BigEndian(SubSeq(header, 29, 32))>>)

\* ---- inputs of SpecRegion ----
SegmentSizes == {16, 4096}
RegionSpan == 5
TableIndexes == {0, 1, 32, RegionSpan + 2 * RegionSpan * 32, 1023}
\* Chunks of the regions west and north of region (0, 0) have negative
\* coordinates.
ChunkCoords ==
    SampleCoords \cup {RegionSpan, 2 * RegionSpan, 32 + RegionSpan}
        \cup {-1, -32, -(32 + RegionSpan)}
\* The region files on disk.
RegionFiles == {<<0, 0>>, <<1, 0>>, <<-1, 0>>, <<0, -1>>, <<-1, -1>>, <<-2, -1>>}

RegionGenerators ==
    {g \in [pat : {"zero", "only", "hole", "wide"}, k0 : TableIndexes,
            segsize : SegmentSizes,
            cut : {"full", "header", "entry", "sizes", "frame"},
            regions : {RegionFiles},
            magic : {"good", "wrong", "binary"}] :
        /\ (g.pat = "wide") = (g.segsize = 16)
        /\ g.pat = "zero" => g.k0 = 0
        /\ g.cut \in {"sizes", "frame"} => g.pat \in {"only", "wide"}}

InitRegion ==
    /\ rgen \in RegionGenerators
    /\ rchunk \in ChunkCoords \X ChunkCoords
    /\ rlog = <<>> /\ rret = NotCalled
    /\ hret = NotCalled
    /\ IdleCell /\ IdleLookup /\ IdleTints /\ IdleFluid /\ IdleParse /\ IdleSurface
    /\ IdleColumn
    /\ IdleBlend
    /\ IdleShade
    /\ IdleColor
    /\ IdleMap
    /\ IdleMatch
    /\ IdleScan

ReadChunkDataStep ==
    /\ rret = NotCalled
    /\ LET r == ReadChunkData(rgen, rchunk[1], rchunk[2]) IN
          rret' = r.ret /\ rlog' = r.log
    /\ UNCHANGED <<rgen, rchunk, varsCell, varsLookup, varsTints, varsFluid, varsParse,
                   varsSurface, varsColumn, varsBlend, varsHeader, varsShade,
                   varsColor, varsMap, varsMatch, varsScan>>

\* getChunkBlocks.main up to the return of read_header
ReadHeaderStep ==
    /\ hret = NotCalled
    /\ <<0, 0>> \in rgen.regions
    /\ hret' = ReadHeader(rgen)
    /\ UNCHANGED <<rgen, rchunk, rlog, rret, varsCell, varsLookup, varsTints, varsFluid,
                   varsParse, varsSurface, varsColumn, varsBlend, varsShade,
                   varsColor, varsMap, varsMatch, varsScan>>

NextRegion == ReadChunkDataStep \/ ReadHeaderStep

SpecRegion == InitRegion /\ [][NextRegion]_vars

\* The table index of a chunk inside its region, and whether the file holds
\* the whole header and that table entry.
RowMajorIndex(chunk) == (chunk[1] % 32) + (chunk[2] % 32) * 32
EntryOnFile(g, chunk) == FileLen(g) >= HEADER_LENGTH + 4 * RowMajorIndex(chunk) + 4

\* C1: read_chunk_data reads the header, then the four bytes of the table
\* entry with row-major index x + z * 32 after the 32-byte header; when the
\* big-endian value of that entry is 0 it returns the absent value without
\* any further seek or read, and otherwise it seeks to
\* segment * segment_size + 32 and reads the blob there.
C1_LocationLookup ==
    (rret # NotCalled /\ rlog # <<>> /\ EntryOnFile(rgen, rchunk)) =>
        LET at      == HEADER_LENGTH + 4 * RowMajorIndex(rchunk)
            segment == TableValue(rgen, RowMajorIndex(rchunk))
        IN  /\ Len(rlog) >= 4
            /\ rlog[2] = OpRead(0, HEADER_LENGTH)
            /\ rlog[3] = OpSeek(at) /\ rlog[4] = OpRead(at, 4)
            /\ segment = 0 => (rret.kind = "None" /\ Len(rlog) = 4)
            /\ segment # 0 =>
                  /\ Len(rlog) >= 6
                  /\ rlog[5] = OpSeek(segment * rgen.segsize + HEADER_LENGTH)
                  /\ rlog[6] = OpRead(segment * rgen.segsize + HEADER_LENGTH, 8)
                  /\ rret.kind # "None"
                  /\ rret.kind = "ok" => rret.val = [frame |-> Frame(segment)]

\* The one zero entry of a table, at x = RegionSpan, z = 2 * RegionSpan,
\* looked up and reported absent after the table read.
C1_Witness ==
    /\ rgen.pat = "hole" /\ rgen.k0 = RegionSpan + 2 * RegionSpan * 32
    /\ rgen.cut = "full"
    /\ rchunk = <<32 + RegionSpan, 2 * RegionSpan>>
    /\ rret.kind = "None"
    /\ Len(rlog) = 4
    /\ rlog[4] = OpRead(HEADER_LENGTH + 4 * (RegionSpan + 2 * RegionSpan * 32), 4)

\* C16: a region file whose 20-byte magic differs from "HytaleIndexedStorage"
\* is rejected with an error when it is opened: read_chunk_data raises after
\* the header read, before it seeks to or reads any location-table entry or
\* blob, so it never returns a chunk decoded from such a file, and
\* read_header raises as well.
C16_WrongMagicRejected ==
    /\ (rret # NotCalled /\ rlog # <<>> /\ rgen.magic # "good") =>
            (rret.kind = "raise" /\ Len(rlog) = 2)
    /\ (hret # NotCalled /\ rgen.magic # "good") => hret.kind = "raise"

-----------------------------------------------------------------------------
(***************************************************************************)
(* SpecColumn: find_surface_fluid over a chunk document.                   *)
(***************************************************************************)

\* None and a str, as the value of a fluid type that may be None.
NoFluid     == [none |-> TRUE, name |-> <<>>]
Fluid(name) == [none |-> FALSE, name |-> name]

\* "not fluid_type" without the test for an empty name
MutFalsy(fluid_type) == fluid_type.none

\* not fluid_type: None or the empty string.
Falsy(fluid_type) == fluid_type.none \/ fluid_type.name = <<>>

\* get_fluid_at(type_palette, type_array, level_array, palette_type, x, y, z):
\* Ok(<<fluid_type, level>>) or the exception an index out of range raises.
GetFluidAt(type_palette, type_array, level_array, palette_type, x, y, z) ==
    IF type_array.none \/ level_array.none THEN Ok(<<NoFluid, 0>>)
    ELSE
    LET flat_idx == FluidFlatIdx(x, y, z)
        type_id  == FluidTypeId(type_array.bytes, palette_type, flat_idx)
    IN
    IF type_id.kind = "raise" THEN type_id
    ELSE IF type_id.kind = "else" THEN Ok(<<NoFluid, 0>>)
    ELSE
    LET fluid_type == IF type_id.val \in DOMAIN type_palette
                      THEN Fluid(type_palette[type_id.val]) ELSE NoFluid
    IN
    IF Falsy(fluid_type) \/ fluid_type.name = EmptyName THEN Ok(<<NoFluid, 0>>)
    ELSE
    LET byte_idx == flat_idx \div 2 IN
    IF byte_idx >= Len(level_array.bytes) THEN Raise("IndexError")
    ELSE IF flat_idx % 2 = 0
         THEN Ok(<<fluid_type, BitAnd(level_array.bytes[byte_idx + 1], 15)>>)
         ELSE Ok(<<fluid_type, BitAnd(Shr(level_array.bytes[byte_idx + 1], 4), 15)>>)

\* None and an int, as the value of topmost_fluid_y.
NoY     == [none |-> TRUE, y |-> 0]
SomeY(y) == [none |-> FALSE, y |-> y]

\* The loop variables of find_surface_fluid.
ScanState(fluid_type, topmost_fluid_y) ==
    [fluid_type |-> fluid_type, topmost_fluid_y |-> topmost_fluid_y]

Continue(st) == [kind |-> "ok", val |-> st]
Break(st)    == [kind |-> "break", val |-> st]

\* sections[section_idx] of a list, negative indexes counting from the end.
ListIndex(list, idx) ==
    IF idx >= 0 /\ idx < Len(list) THEN Ok(list[idx + 1])
    ELSE IF idx < 0 /\ idx >= -Len(list) THEN Ok(list[Len(list) + idx + 1])
    ELSE Raise("IndexError")

\* The body of "for world_y in range(319, surface_y, -1)".  Each local
\* operator is the rest of the body after the value it is given was computed.
ScanBody(sections, x, z, world_y, st) ==
    LET section_idx == world_y \div 32
        local_y == world_y % 32
        Track(current_fluid, fluid_level) ==
            IF ~Falsy(current_fluid) /\ fluid_level > 0
            THEN IF st.fluid_type.none
                 THEN Continue(ScanState(current_fluid, SomeY(world_y)))
                 ELSE IF current_fluid # st.fluid_type THEN Break(st)
                 ELSE Continue(st)
            ELSE IF ~st.fluid_type.none THEN Break(st)
            ELSE Continue(st)
        AfterGet(got) ==
            IF got.kind = "raise" THEN got ELSE Track(got.val[1], got.val[2])
        AfterParse(parsed) ==
            IF parsed.kind = "raise" THEN parsed
            ELSE IF parsed.val.type_array.none \/ parsed.val.level_array.none
            THEN Continue(st)
            ELSE AfterGet(GetFluidAt(parsed.val.type_palette, parsed.val.type_array,
                                     parsed.val.level_array, parsed.val.palette_type,
                                     x, local_y, z))
        AfterIndex(section) ==
            IF section.kind = "raise" THEN section
            ELSE IF ~section.val.has_fluid THEN Continue(st)
            ELSE IF ~section.val.has_data \/ Len(section.val.data) = 0
                    \/ Len(section.val.data) < 3
            THEN Continue(st)
            ELSE AfterParse(ParseFluidSection(section.val.data))
    IN  IF section_idx >= Len(sections) THEN Continue(st)
        ELSE AfterIndex(ListIndex(sections, section_idx))

\* The loop for world_y from hi down to lo: the loop variables when it ends
\* or breaks, or the exception raised.
RECURSIVE ScanLoop(_, _, _, _, _, _)
ScanLoop(sections, x, z, hi, lo, st) ==
    IF hi < lo THEN Continue(st)
    ELSE IF hi = lo THEN ScanBody(sections, x, z, hi, st)
    ELSE LET mid   == (hi + lo) \div 2
             first == ScanLoop(sections, x, z, hi, mid + 1, st)
         IN  IF first.kind # "ok" THEN first
             ELSE ScanLoop(sections, x, z, mid, lo, first.val)

\* find_surface_fluid(chunk_data, x, z, surface_y): Ok(<<fluid_type, fluid_depth>>)
\* or the exception raised.
FindSurfaceFluid(sections, x, z, surface_y) ==
    LET AfterLoop(loop) ==
            IF loop.kind = "raise" THEN loop
            ELSE IF ~Falsy(loop.val.fluid_type) /\ ~loop.val.topmost_fluid_y.none
                 THEN Ok(<<loop.val.fluid_type, loop.val.topmost_fluid_y.y - surface_y>>)
                 ELSE Ok(<<NoFluid, 0>>)
    IN  AfterLoop(ScanLoop(sections, x, z, 319, surface_y + 1, ScanState(NoFluid, NoY)))

\* ---- inputs of SpecColumn ----
LavaBytes == <<76, 97, 118, 97>>             \* "Lava"

\* Palette of the fluid sections: a name "Empty", two fluids and an empty
\* name; id UnmappedId is stored in cells but has no palette entry.
ColumnPalette ==
    <<[id |-> 0, name |-> EmptyBytes, count |-> 0],
      [id |-> 1, name |-> WaterBytes, count |-> 1],
      [id |-> 2, name |-> LavaBytes, count |-> 1],
      [id |-> 3, name |-> <<>>, count |-> 1]>>

NoFluidSection == [has_fluid |-> FALSE, has_data |-> FALSE, data |-> <<>>]
NoDataSection  == [has_fluid |-> TRUE, has_data |-> FALSE, data |-> <<>>]
FluidSection(data) == [has_fluid |-> TRUE, has_data |-> TRUE, data |-> data]

\* cells is a set of <<x, y, z, id, level>>; every other cell holds id 0 and
\* level 0.  The level array packs two cells a byte like the HalfByte encoding.
FluidData(ptype, cells) ==
    <<ptype>> \o BE16(Len(ColumnPalette)) \o PaletteBytes(ptype, ColumnPalette)
    \o SectionArray(ptype, {<<c[1], c[2], c[3], c[4]>> : c \in cells}, 0)
    \o SectionArray(1, {<<c[1], c[2], c[3], c[5]>> : c \in cells}, 0)

\* Cells of the lower fluid section: "Lava" of level 9 at (x1, 1, z1), "Water"
\* under it, and "Water" on top of the next column in x.
LowerFluidCells(g) ==
    IF g.lokind = "lava"
    THEN {<<g.x1, 1, g.z1, 2, 9>>, <<g.x1, 0, g.z1, 1, 15>>,
          <<(g.x1 + 1) % 32, 31, g.z1, 1, 1>>}
    ELSE {}

\* Cells of the higher fluid section, all in column (x1, z1).  "decoy": the
\* name "Empty" with a level, "Water" of level 0, an id without palette entry.
\* "water": "Water" of level 5 at y2.  "noname": the empty name, level 5, at y2.
UpperFluidCells(g) ==
    IF g.hikind = "decoy"
    THEN {<<g.x1, 31, g.z1, 0, 7>>, <<g.x1, 30, g.z1, 1, 0>>,
          <<g.x1, g.y2, g.z1, UnmappedId, 3>>}
    ELSE IF g.hikind \in {"water", "cut"} THEN {<<g.x1, g.y2, g.z1, 1, 5>>}
    ELSE IF g.hikind = "noname" THEN {<<g.x1, g.y2, g.z1, 3, 5>>}
    ELSE {}

LowerFluidSection(g) ==
    IF g.lokind = "absent" THEN NoFluidSection
    ELSE FluidSection(FluidData(2, LowerFluidCells(g)))

\* The higher section: without Fluid; Fluid without Data; two bytes of
\* Data; a blob cut in its level array; or a whole blob.
UpperFluidSection(g) ==
    CASE g.hikind = "absent" -> NoFluidSection
      [] g.hikind = "nodata" -> NoDataSection
      [] g.hikind = "short"  -> FluidSection(<<1, 0>>)
      [] g.hikind = "cut"    ->
            LET d == FluidData(1, UpperFluidCells(g)) IN FluidSection(SubSeq(d, 1, Len(d) - 1))
      [] g.hikind = "decoy"  -> FluidSection(FluidData(3, UpperFluidCells(g)))
      [] g.hikind = "water"  -> FluidSection(FluidData(1, UpperFluidCells(g)))
      [] g.hikind = "noname" -> FluidSection(FluidData(2, UpperFluidCells(g)))

FluidKinds == {"absent", "nodata", "short", "cut", "decoy", "water", "noname"}

\* A chunk has ten sections, or one less.
SectionCounts == {9, 10}

ColumnGenerators ==
    {[lo |-> lo, lokind |-> lk, hikind |-> hk, x1 |-> 5, z1 |-> 10, y2 |-> y2, n |-> n] :
        lo \in LowerIndexes, lk \in {"absent", "lava"}, hk \in FluidKinds,
        y2 \in {0, 29}, n \in SectionCounts}

\* chunk_data["Components"]["ChunkColumn"]["Sections"], a list.
FluidSections(g) ==
    [k \in 1 .. g.n |-> IF k - 1 = g.lo THEN LowerFluidSection(g)
                        ELSE IF k - 1 = g.lo + SectionGap THEN UpperFluidSection(g)
                        ELSE NoFluidSection]

\* surface_y: below the world, at and just under each written cell, and at
\* the top of the world.
SurfaceLevels(g) ==
    {-1, g.lo * 32, g.lo * 32 + 1, (g.lo + SectionGap) * 32 + g.y2 - 1,
     (g.lo + SectionGap) * 32 + g.y2, 319}

InitColumn ==
    /\ wgen \in ColumnGenerators
    /\ wdoc = FluidSections(wgen)
    /\ wcol \in {<<wgen.x1, wgen.z1>>, <<(wgen.x1 + 1) % 32, wgen.z1>>}
    /\ wsurf \in SurfaceLevels(wgen)
    /\ wret = NotCalled
    /\ IdleCell /\ IdleLookup /\ IdleTints /\ IdleFluid /\ IdleParse /\ IdleSurface
    /\ IdleRegion
    /\ IdleBlend
    /\ IdleHeader
    /\ IdleShade
    /\ IdleColor
    /\ IdleMap
    /\ IdleMatch
    /\ IdleScan

FindSurfaceFluidStep ==
    /\ wret = NotCalled
    /\ wret' = FindSurfaceFluid(wdoc, wcol[1], wcol[2], wsurf)
    /\ UNCHANGED <<wgen, wdoc, wcol, wsurf, varsCell, varsLookup, varsTints, varsFluid,
                   varsParse, varsSurface, varsRegion, varsBlend, varsHeader,
                   varsShade, varsColor, varsMap, varsMatch, varsScan>>

NextColumn == FindSurfaceFluidStep

SpecColumn == InitColumn /\ [][NextColumn]_vars

\* The cells written to the sections find_surface_fluid can use, as
\* <<world_y, x, z, id, level>>.
WrittenFluidCells(g) ==
    {<<g.lo * 32 + c[2], c[1], c[3], c[4], c[5]>> : c \in LowerFluidCells(g)}
    \cup (IF g.hikind \in {"decoy", "water", "noname"} /\ g.lo + SectionGap < g.n
          THEN {<<(g.lo + SectionGap) * 32 + c[2], c[1], c[3], c[4], c[5]>> :
                    c \in UpperFluidCells(g)}
          ELSE {})

\* The expected result when the cells holding fluid are those with an id of
\* ids and a level above 0: the name and height over surface_y of the highest
\* one above surface_y in column (x, z), or (None, 0).
ExpectedFluid(g, x, z, surface_y, ids) ==
    LET col == {c \in WrittenFluidCells(g) :
                   /\ c[2] = x /\ c[3] = z /\ c[4] \in ids /\ c[5] > 0
                   /\ c[1] > surface_y /\ c[1] <= 319}
    IN  IF col = {} THEN <<NoFluid, 0>>
        ELSE LET top == CHOOSE c \in col : \A d \in col : d[1] <= c[1]
             IN  <<Fluid(ColumnPalette[top[4] + 1].name), top[1] - surface_y>>

\* Ids of ColumnPalette with a name other than "Empty", and those of them
\* whose name is not the empty string.
NamedIds == {1, 2, 3}
NonEmptyNamedIds == {1, 2}

\* C11 as stated: find_surface_fluid returns (type, topY - surface_y) for the
\* highest topY in (surface_y, 319] whose fluid cell has a palette name other
\* than "Empty" and a level above 0, and (None, 0) when there is none.
C11_SurfaceFluid ==
    wret # NotCalled =>
        wret = Ok(ExpectedFluid(wgen, wcol[1], wcol[2], wsurf, NamedIds))

\* C11 amended: the same, a cell counting as fluid only when its palette name
\* is neither "Empty" nor the empty string; so a fluid type is never returned
\* with a depth below 1 and cells at or below surface_y do not count.
C11_SurfaceFluidNonEmptyName ==
    wret # NotCalled =>
        /\ wret = Ok(ExpectedFluid(wgen, wcol[1], wcol[2], wsurf, NonEmptyNamedIds))
        /\ (~wret.val[1].none) => wret.val[2] >= 1

\* "Lava" found in the lower section under a cell of the empty name with a
\* level, from below the world.
C11_Witness ==
    /\ wgen.hikind = "noname" /\ wgen.lokind = "lava" /\ wgen.n = 10
    /\ wgen.lo = 9 - SectionGap
    /\ wcol = <<wgen.x1, wgen.z1>> /\ wsurf = -1
    /\ wret = Ok(<<Fluid(LavaBytes), wgen.lo * 32 + 2>>)

-----------------------------------------------------------------------------
(***************************************************************************)
(* SpecBlend: blend_fluid_color.                                           *)
(*                                                                         *)
(* The channel arithmetic is done in doubles by the code and exactly here: *)
(* for channels 0 .. 255 and depths below 2000 the double result           *)
(* fluid + (terrain - fluid) * (1.0 / depth) truncates to the same integer *)
(* as the exact quotient.                                                  *)
(***************************************************************************)

\* int(): the quotient a / b rounded toward zero, for b > 0.
TruncDiv(a, b) == IF a >= 0 THEN a \div b ELSE -((-a) \div b)

\* needle in haystack, for strings.
Contains(haystack, needle) ==
    \E i \in 1 .. (Len(haystack) - Len(needle) + 1) :
        SubSeq(haystack, i, i + Len(needle) - 1) = needle

WaterColor == <<25, 131, 217>>
LavaColor  == <<249, 78, 17>>

\* The divisor with depth 1 already halving the terrain's share
MutDepthDivisor(fluid_level) == Max(1, fluid_level) + 1

\* depth_multiplier = min(1.0, 1.0 / max(1, fluid_level)) is 1 / DepthDivisor.
DepthDivisor(fluid_level) == Max(1, fluid_level)

\* The blend weighted toward the terrain instead of the fluid
MutBlendChannel(fluid, terrain, divisor) ==
    Min(255, Max(0, TruncDiv(terrain * divisor + (fluid - terrain), divisor)))

\* int(fluid + (terrain - fluid) * depth_multiplier), clamped to 0 .. 255.
BlendChannel(fluid, terrain, divisor) ==
    Min(255, Max(0, TruncDiv(fluid * divisor + (terrain - fluid), divisor)))

\* blend_fluid_color(terrain_color, fluid_type, fluid_level)
BlendFluidColor(terrain_color, fluid_type, fluid_level) ==
    IF Falsy(fluid_type) \/ fluid_level = 0 THEN Ok(terrain_color)
    ELSE IF ~Contains(fluid_type.name, WaterBytes) /\ ~Contains(fluid_type.name, LavaBytes)
    THEN Ok(terrain_color)
    ELSE LET fluid_color == IF Contains(fluid_type.name, WaterBytes)
                            THEN WaterColor ELSE LavaColor
             divisor == DepthDivisor(fluid_level)
         IN  Ok([k \in 1 .. 3 |-> BlendChannel(fluid_color[k], terrain_color[k], divisor)])

\* ---- inputs of SpecBlend ----
\* Terrain colours: every value 0 .. 255 occurs in each channel.
TerrainColors == {<<t, 255 - t, (t * 7) % 256>> : t \in 0 .. 255}

\* None, "", the two fluids, names containing them, and other names.
MudBytes == <<77, 117, 100>>
FluidNames ==
    {NoFluid, Fluid(<<>>), Fluid(WaterBytes), Fluid(LavaBytes), Fluid(EmptyBytes),
     Fluid(MudBytes), Fluid(MudBytes \o LavaBytes),
     Fluid(LavaBytes \o WaterBytes \o MudBytes)}

\* Depths 0 .. MaxDepth one by one, and the greatest a column can have.
MaxDepth == 12
FarDepth == 320

InitBlend ==
    /\ bterrain \in TerrainColors
    /\ btype \in FluidNames
    /\ bdepth \in {-1, 0}
    /\ bret = NotCalled /\ bprev = NotCalled
    /\ IdleCell /\ IdleLookup /\ IdleTints /\ IdleFluid /\ IdleParse /\ IdleSurface
    /\ IdleRegion /\ IdleColumn
    /\ IdleHeader
    /\ IdleShade
    /\ IdleColor
    /\ IdleMap
    /\ IdleMatch
    /\ IdleScan

BlendFluidColorStep ==
    /\ bret = NotCalled
    /\ bret' = BlendFluidColor(bterrain, btype, bdepth)
    /\ UNCHANGED <<bterrain, btype, bdepth, bprev, varsCell, varsLookup, varsTints,
                   varsFluid, varsParse, varsSurface, varsRegion, varsColumn,
                   varsHeader, varsShade, varsColor, varsMap, varsMatch, varsScan>>

\* The same column with more fluid over it: the next call has a greater depth.
DeepenStep ==
    /\ bret # NotCalled
    /\ \E d \in {bdepth + 1, FarDepth} :
          /\ d > bdepth /\ (d <= MaxDepth \/ d = FarDepth)
          /\ bdepth' = d
    /\ bprev' = bret
    /\ bret' = NotCalled
    /\ UNCHANGED <<bterrain, btype, varsCell, varsLookup, varsTints,
                   varsFluid, varsParse, varsSurface, varsRegion, varsColumn,
                   varsHeader, varsShade, varsColor, varsMap, varsMatch, varsScan>>

NextBlend == BlendFluidColorStep \/ DeepenStep

SpecBlend == InitBlend /\ [][NextBlend]_vars

\* The fluid constant the claims name for a fluid type, <<>> for none.
NamedFluidColor(fluid_type) ==
    IF fluid_type.none THEN <<>>
    ELSE IF Contains(fluid_type.name, WaterBytes) THEN <<25, 131, 217>>
    ELSE IF Contains(fluid_type.name, LavaBytes) THEN <<249, 78, 17>>
    ELSE <<>>

Distance(a, b) == IF a >= b THEN a - b ELSE b - a

\* C12: blend_fluid_color returns the terrain colour unchanged when the fluid
\* type is None, when the depth is 0, when the type's name contains neither
\* "Water" nor "Lava", and for Water / Lava of depth exactly 1.
C12_TerrainUnchanged ==
    (/\ bret # NotCalled
     /\ \/ btype.none
        \/ bdepth = 0
        \/ NamedFluidColor(btype) = <<>>
        \/ bdepth = 1)
    => bret = Ok(bterrain)

\* Water of depth 1 over a terrain colour far from the water colour.
C12_Witness ==
    /\ btype = Fluid(WaterBytes) /\ bdepth = 1
    /\ bterrain = <<255, 0, 249>>
    /\ bret = Ok(<<255, 0, 249>>)

\* C13: for Water or Lava of depth >= 1 every channel returned is an integer
\* of 0 .. 255 between the fluid constant and the terrain channel, its
\* distance to the fluid constant is no greater than it was for the smaller
\* depth of the call before, depth 1 gives the terrain colour and the
\* greatest depth a colour within 1 of the fluid constant.
C13_BlendTowardFluid ==
    (bret # NotCalled /\ NamedFluidColor(btype) # <<>> /\ bdepth >= 1) =>
        /\ bret.kind = "ok"
        /\ \A k \in 1 .. 3 :
              LET f == NamedFluidColor(btype)[k]
                  t == bterrain[k]
                  c == bret.val[k]
              IN  /\ c \in 0 .. 255
                  /\ Min(f, t) <= c /\ c <= Max(f, t)
                  /\ bprev # NotCalled => Distance(c, f) <= Distance(bprev.val[k], f)
                  /\ bdepth = 1 => c = t
                  /\ bdepth = FarDepth => Distance(c, f) <= 1

\* Lava of depth 3 over <<0, 255, 0>>, after the call for depth 2.
C13_Witness ==
    /\ btype = Fluid(LavaBytes) /\ bdepth = 3 /\ bprev # NotCalled
    /\ bterrain = <<0, 255, 0>>
    /\ bret = Ok(<<166, 137, 11>>) /\ bprev = Ok(<<124, 166, 8>>)

-----------------------------------------------------------------------------
(***************************************************************************)
(* Python float: an IEEE-754 double, every operation rounded to the        *)
(* nearest double, ties to the even mantissa.  A double other than zero is *)
(* [neg, m, e] with the value (-1)^neg * m * 2^e and 2^52 <= m < 2^53; m   *)
(* is a natural number too large for one machine integer, kept as its      *)
(* digits in base 2^15, lowest first, without a leading zero digit.  The   *)
(* two zeros are one value here (no operation of the program tells them    *)
(* apart), and infinities, NaN and subnormal numbers are out of reach of   *)
(* the magnitudes the program computes with.                               *)
(***************************************************************************)

LimbBase == 2 ^ 15
MantissaBits == 53

\* The value of an expression, taken where it stands: a local variable of the
\* code is the one member of a set.
Only(values) == CHOOSE value \in values : TRUE

\* ---- natural numbers as digit sequences ----

RECURSIVE BigNorm(_)
BigNorm(a) ==
    IF Len(a) > 0 /\ a[Len(a)] = 0 THEN BigNorm(SubSeq(a, 1, Len(a) - 1)) ELSE a

RECURSIVE BigOf(_)
BigOf(n) == IF n = 0 THEN <<>> ELSE <<n % LimbBase>> \o BigOf(n \div LimbBase)

RECURSIVE BigToInt(_)
BigToInt(a) == IF Len(a) = 0 THEN 0 ELSE a[1] + LimbBase * BigToInt(Tail(a))

Limb(a, i) == IF i >= 1 /\ i <= Len(a) THEN a[i] ELSE 0

RECURSIVE BigAddFrom(_, _, _, _)
BigAddFrom(a, b, i, carry) ==
    IF i > Len(a) /\ i > Len(b) THEN BigOf(carry)
    ELSE <<(Limb(a, i) + Limb(b, i) + carry) % LimbBase>>
             \o BigAddFrom(a, b, i + 1, (Limb(a, i) + Limb(b, i) + carry) \div LimbBase)
BigAdd(a, b) == BigAddFrom(a, b, 1, 0)

\* a - b for a >= b
RECURSIVE BigSubFrom(_, _, _, _)
BigSubFrom(a, b, i, borrow) ==
    IF i > Len(a) THEN <<>>
    ELSE <<(a[i] - Limb(b, i) - borrow) % LimbBase>>
             \o BigSubFrom(a, b, i + 1, IF a[i] - Limb(b, i) - borrow < 0 THEN 1 ELSE 0)
BigSub(a, b) == BigNorm(BigSubFrom(a, b, 1, 0))

\* -1, 0, 1 as a < b, a = b, a > b
RECURSIVE BigCmpAt(_, _, _)
BigCmpAt(a, b, i) ==
    IF i = 0 THEN 0
    ELSE IF a[i] < b[i] THEN -1
    ELSE IF a[i] > b[i] THEN 1
    ELSE BigCmpAt(a, b, i - 1)
BigCmp(a, b) ==
    IF Len(a) < Len(b) THEN -1
    ELSE IF Len(a) > Len(b) THEN 1
    ELSE BigCmpAt(a, b, Len(a))

\* a * k for one digit k (or k = LimbBase)
RECURSIVE BigScaleFrom(_, _, _, _)
BigScaleFrom(a, k, i, carry) ==
    IF i > Len(a) THEN BigOf(carry)
    ELSE <<(a[i] * k + carry) % LimbBase>>
             \o BigScaleFrom(a, k, i + 1, (a[i] * k + carry) \div LimbBase)
BigScale(a, k) == IF k = 0 THEN <<>> ELSE BigScaleFrom(a, k, 1, 0)

\* a * LimbBase^n
BigShiftLimbs(a, n) == IF Len(a) = 0 THEN <<>> ELSE [i \in 1 .. n |-> 0] \o a

RECURSIVE BigMulFrom(_, _, _)
BigMulFrom(a, b, j) ==
    IF j > Len(b) THEN <<>>
    ELSE BigAdd(BigShiftLimbs(BigScale(a, b[j]), j - 1), BigMulFrom(a, b, j + 1))
BigMul(a, b) == BigMulFrom(a, b, 1)

\* a * 2^k and the integer part of a / 2^k
BigShl(a, k) == BigShiftLimbs(BigScale(a, 2 ^ (k % 15)), k \div 15)
BigShr(a, k) ==
    BigNorm([i \in 1 .. (Len(a) - (k \div 15)) |->
                (Limb(a, i + (k \div 15)) \div 2 ^ (k % 15))
                    + (Limb(a, i + (k \div 15) + 1) % 2 ^ (k % 15)) * 2 ^ (15 - (k % 15))])

\* The number of binary digits of a digit, and of a
SmallBits(d) == CHOOSE k \in 0 .. 15 : d < 2 ^ k /\ (k = 0 \/ d >= 2 ^ (k - 1))
BigBits(a) == IF Len(a) = 0 THEN 0 ELSE 15 * (Len(a) - 1) + SmallBits(a[Len(a)])

\* Binary digit k of a (digit 0 is the lowest), and whether the k lowest are 0
BigBit(a, k) == (Limb(a, (k \div 15) + 1) \div 2 ^ (k % 15)) % 2
BigLowZero(a, k) ==
    /\ \A i \in 1 .. (k \div 15) : Limb(a, i) = 0
    /\ Limb(a, (k \div 15) + 1) % 2 ^ (k % 15) = 0

\* One digit of a quotient: the largest q with d * q <= r, for r < d * LimbBase
\* and a d whose highest digit is at least LimbBase / 2.  The estimate from the
\* two highest digits of r is at most 2 too large.
RECURSIVE DigitDown(_, _, _)
DigitDown(r, d, q) == IF BigCmp(BigScale(d, q), r) > 0 THEN DigitDown(r, d, q - 1) ELSE q
DivDigit(r, d) ==
    IF BigCmp(r, d) < 0 THEN 0
    ELSE DigitDown(r, d,
             Min(LimbBase - 1,
                 (Limb(r, Len(d) + 1) * LimbBase + Limb(r, Len(d))) \div d[Len(d)]))

\* Long division of the digits i, i - 1 .. 1 of n by d, with the remainder r
\* of the digits above and the digits q of their quotient: the digits of the
\* quotient and the last remainder.
\* Digit i is taken from r1, the remainder followed by digit i of n.
DivPut(d, r1, digit, q) == [q |-> <<digit>> \o q, r |-> BigSub(r1, BigScale(d, digit))]
DivStep(n, d, i, r, q) ==
    Only({DivPut(d, r1, DivDigit(r1, d), q) : r1 \in {BigNorm(<<n[i]>> \o r)}})
RECURSIVE DivFrom(_, _, _, _, _)
DivFrom(n, d, i, r, q) ==
    IF i = 0 THEN [q |-> q, r |-> r]
    ELSE Only({DivFrom(n, d, i - 1, step.r, step.q) : step \in {DivStep(n, d, i, r, q)}})

\* The integer part of n / d and whether there is a remainder, for d > 0:
\* both are multiplied by 2^sh first, to bring the highest digit of d to
\* LimbBase / 2 at least.
DivResult(res) == [q |-> BigNorm(res.q), exact |-> Len(res.r) = 0]
\* The Len(dd) - 1 highest digits of nn are less than dd: the quotient has no
\* digit for them.
DivShifted(nn, dd) ==
    DivResult(IF Len(nn) < Len(dd) THEN [q |-> <<>>, r |-> nn]
              ELSE DivFrom(nn, dd, Len(nn) - Len(dd) + 1,
                           SubSeq(nn, Len(nn) - Len(dd) + 2, Len(nn)), <<>>))
DivNormalised(n, d, sh) ==
    Only({DivShifted(nn, dd) : nn \in {BigShl(n, sh)}, dd \in {BigShl(d, sh)}})
BigDiv(n, d) == DivNormalised(n, d, 15 - SmallBits(d[Len(d)]))

\* The largest r with r * r <= n, for n < LimbBase^2: the r in lo .. lo + 255
\* when there is one, and the multiple of 256 to start from
IsqrtIn(n, lo) == CHOOSE r \in lo .. (lo + 255) : r * r <= n /\ (r + 1) * (r + 1) > n
IsqrtStart(n) == CHOOSE h \in 0 .. 127 : (h * 256) * (h * 256) <= n
                                         /\ ((h + 1) * 256) * ((h + 1) * 256) > n
Isqrt(n) == IsqrtIn(n, IsqrtStart(n) * 256)

\* Newton's iteration from an x that is not below the root
RECURSIVE BigIsqrtFrom(_, _)
IsqrtNext(n, x, y) == IF BigCmp(y, x) >= 0 THEN x ELSE BigIsqrtFrom(n, y)
BigIsqrtFrom(n, x) ==
    Only({IsqrtNext(n, x, y) : y \in {BigShr(BigAdd(x, quotient), 1) :
                                          quotient \in {BigDiv(n, x).q}}})

\* The integer part of the square root of n > 0: the first x is the root of
\* the one or two highest digits, rounded up.
BigIsqrt(n) ==
    Only({BigIsqrtFrom(n, BigShiftLimbs(BigOf(first + 1), (Len(n) - 1) \div 2)) :
              first \in {Isqrt(IF Len(n) % 2 = 1 THEN n[Len(n)]
                               ELSE n[Len(n)] * LimbBase + n[Len(n) - 1])}})

\* ---- doubles ----

FloatZero == [neg |-> FALSE, m |-> <<>>, e |-> 0]
IsZero(a) == Len(a.m) = 0

\* The double nearest to (-1)^neg * (n + f) * 2^e for a natural n > 0 and a
\* fraction 0 <= f < 1 that is not 0 exactly when sticky; n has more than
\* MantissaBits + 1 binary digits when sticky.
\* n loses its drop lowest binary digits, q being what is left: up when they
\* are more than half of the last place, or half of it and q is odd.
RoundedUp(n, drop, sticky, q) ==
    IF /\ BigBit(n, drop - 1) = 1
       /\ (sticky \/ ~BigLowZero(n, drop - 1) \/ BigBit(q, 0) = 1)
    THEN BigAdd(q, <<1>>) ELSE q
Renormalised(neg, r, e) ==
    IF BigBits(r) > MantissaBits THEN [neg |-> neg, m |-> BigShr(r, 1), e |-> e + 1]
    ELSE [neg |-> neg, m |-> r, e |-> e]
RoundDropping(neg, n, e, sticky, drop) ==
    IF drop <= 0 THEN [neg |-> neg, m |-> BigShl(n, -drop), e |-> e + drop]
    ELSE Renormalised(neg, RoundedUp(n, drop, sticky, BigShr(n, drop)), e + drop)
RoundToDouble(neg, n, e, sticky) ==
    RoundDropping(neg, n, e, sticky, BigBits(n) - MantissaBits)

\* float(i) for an int i
FloatOf(i) ==
    IF i = 0 THEN FloatZero
    ELSE RoundToDouble(i < 0, BigOf(IF i < 0 THEN -i ELSE i), 0, FALSE)

\* -a
FNeg(a) == IF IsZero(a) THEN a ELSE [a EXCEPT !.neg = ~a.neg]

\* a + b
\* The sign and the size of x - y, c telling which is the larger
Difference(xneg, x, yneg, y, c) ==
    IF c = 0 THEN <<FALSE, <<>>>>
    ELSE IF c > 0 THEN <<xneg, BigSub(x, y)>>
    ELSE <<yneg, BigSub(y, x)>>
\* The sign and the size of the sum of two numbers of sizes x and y
SignedSum(xneg, x, yneg, y) ==
    IF xneg = yneg THEN <<xneg, BigAdd(x, y)>>
    ELSE Difference(xneg, x, yneg, y, BigCmp(x, y))
RoundSum(sum, e) ==
    IF Len(sum[2]) = 0 THEN FloatZero ELSE RoundToDouble(sum[1], sum[2], e, FALSE)
FAdd(a, b) ==
    IF IsZero(a) THEN b
    ELSE IF IsZero(b) THEN a
    ELSE Only({RoundSum(sum, Min(a.e, b.e)) :
                   sum \in {SignedSum(a.neg, BigShl(a.m, a.e - Min(a.e, b.e)),
                                      b.neg, BigShl(b.m, b.e - Min(a.e, b.e)))}})

\* a - b
FSub(a, b) == FAdd(a, FNeg(b))

\* a * b
FMul(a, b) ==
    IF IsZero(a) \/ IsZero(b) THEN FloatZero
    ELSE Only({RoundToDouble(a.neg # b.neg, product, a.e + b.e, FALSE) :
                   product \in {BigMul(a.m, b.m)}})

\* a / b for b other than zero: the quotient of the mantissas is taken with
\* 60 more binary digits
RoundQuotient(neg, res, e) == RoundToDouble(neg, res.q, e, ~res.exact)
FDiv(a, b) ==
    IF IsZero(a) THEN FloatZero
    ELSE Only({RoundQuotient(a.neg # b.neg, res, a.e - b.e - 60) :
                   res \in {BigDiv(BigShiftLimbs(a.m, 4), b.m)}})

\* math.sqrt(a) for a >= 0: the root of the mantissa is taken with 60 or 61
\* more binary digits, whichever leaves an even exponent
RoundRoot(n, s, e) == RoundToDouble(FALSE, s, e, BigCmp(BigMul(s, s), n) # 0)
RootOf(n, e) == Only({RoundRoot(n, s, e) : s \in {BigIsqrt(n)}})
FSqrt(a) ==
    IF IsZero(a) THEN FloatZero
    ELSE Only({RootOf(n, (a.e - 60 - (a.e % 2)) \div 2) :
                   n \in {BigShl(a.m, 60 + (a.e % 2))}})

\* a < b
FLess(a, b) ==
    IF IsZero(a) THEN ~IsZero(b) /\ ~b.neg
    ELSE IF IsZero(b) THEN a.neg
    ELSE IF a.neg # b.neg THEN a.neg
    ELSE BigCmp(BigShl(a.m, a.e - Min(a.e, b.e)), BigShl(b.m, b.e - Min(a.e, b.e)))
             = (IF a.neg THEN 1 ELSE -1)

\* int(a): the integer part, towards zero
FloatToInt(a) ==
    IF IsZero(a) THEN 0
    ELSE (IF a.neg THEN -1 ELSE 1)
             * BigToInt(IF a.e >= 0 THEN BigShl(a.m, a.e) ELSE BigShr(a.m, -a.e))

-----------------------------------------------------------------------------
(***************************************************************************)
(* SpecShade: calculate_shading.  Heights are integers, a sub-pixel       *)
(* position is a double, and every operation on doubles is made in the     *)
(* order the code makes it.                                                *)
(***************************************************************************)

\* A decimal literal with one digit after the point: 0.2 is the double
\* nearest to 2 / 10.
Tenths(n) == FDiv(FloatOf(n), FloatOf(10))

\* a * (1.0 - t) + b * t for ints a and b
Interpolate(a, b, t) ==
    Only({FAdd(left, right) :
              left \in {FMul(FloatOf(a), rest) : rest \in {FSub(FloatOf(1), t)}},
              right \in {FMul(FloatOf(b), t)}})

\* (dhdx, dhdz) with a term "- height" dropped from dhdx1
MutGradients(height, neighbors, u, v) ==
    LET n == neighbors[1]  s == neighbors[2]  w == neighbors[3]  e == neighbors[4]
        nw == neighbors[5] ne == neighbors[6] sw == neighbors[7] se == neighbors[8]
        ud == FDiv(FAdd(u, v), FloatOf(2))
        vd == FDiv(FAdd(FSub(FloatOf(1), u), v), FloatOf(2))
        dhdx1 == Interpolate(height - w, e, u)
        dhdz1 == Interpolate(height - n, s - height, v)
        dhdx2 == Interpolate(height - nw, se - height, ud)
        dhdz2 == Interpolate(height - ne, sw - height, vd)
    IN  <<FAdd(FMul(dhdx1, FloatOf(2)), dhdx2), FAdd(FMul(dhdz1, FloatOf(2)), dhdz2)>>

\* (dhdx, dhdz): ud = (u + v) / 2.0, vd = (1.0 - u + v) / 2.0,
\* dhdx = dhdx1 * 2.0 + dhdx2 and dhdz = dhdz1 * 2.0 + dhdz2.
Gradients(height, neighbors, u, v) ==
    LET n == neighbors[1]  s == neighbors[2]  w == neighbors[3]  e == neighbors[4]
        nw == neighbors[5] ne == neighbors[6] sw == neighbors[7] se == neighbors[8]
        ud == FDiv(FAdd(u, v), FloatOf(2))
        vd == FDiv(FAdd(FSub(FloatOf(1), u), v), FloatOf(2))
        dhdx1 == Interpolate(height - w, e - height, u)
        dhdz1 == Interpolate(height - n, s - height, v)
        dhdx2 == Interpolate(height - nw, se - height, ud)
        dhdz2 == Interpolate(height - ne, sw - height, vd)
    IN  <<FAdd(FMul(dhdx1, FloatOf(2)), dhdx2), FAdd(FMul(dhdz1, FloatOf(2)), dhdz2)>>

\* x * x + y * y + z * z
SquaredLength(x, y, z) == FAdd(FAdd(FMul(x, x), FMul(y, y)), FMul(z, z))

\* (x, y, z) with x *= inv, y *= inv, z *= inv for
\* inv = 1.0 / math.sqrt(x * x + y * y + z * z)
Scaled(x, y, z, inv) == <<FMul(x, inv), FMul(y, inv), FMul(z, inv)>>
Normalised(x, y, z) ==
    Only({Scaled(x, y, z, inv) :
              inv \in {FDiv(FloatOf(1), root) : root \in {FSqrt(SquaredLength(x, y, z))}}})

\* Light direction (-0.2, 0.8, 0.5), normalised.
LightDirection == Normalised(FNeg(Tenths(2)), Tenths(8), Tenths(5))

\* ambient + diffuse * lambert with lambert = max(0.0, nx * lx + ny * ly +
\* nz * lz), which is the sum when that is greater than 0.0 and 0.0 otherwise.
Lambert(dot) ==
    FAdd(Tenths(4), FMul(Tenths(6), IF FLess(FloatZero, dot) THEN dot ELSE FloatZero))
DotProduct(n, l) == FAdd(FAdd(FMul(n[1], l[1]), FMul(n[2], l[2])), FMul(n[3], l[3]))

\* The multiplier for the gradients g = (dhdx, dhdz): the normal is
\* (dhdx, dy, dhdz) with dy = 3.0, normalised.
ShadingOf(g) ==
    Only({Lambert(dot) :
              dot \in {DotProduct(n, LightDirection) :
                           n \in {Normalised(g[1], FloatOf(3), g[2])}}})

\* calculate_shading(height, neighbors, pixel_x, pixel_z)
CalculateShading(height, neighbors, pixel_x, pixel_z) ==
    Only({ShadingOf(g) : g \in {Gradients(height, neighbors, pixel_x, pixel_z)}})

\* ---- inputs of SpecShade ----
\* Centre heights, and what each neighbour adds to the centre height.
ShadeHeights == {0, 1, 64, 319}
MaxSlope == 2
Slopes ==
    {[k \in 1 .. 8 |-> 0]}
    \cup {[k \in 1 .. 8 |-> IF k = j THEN d ELSE 0] : j \in 1 .. 8, d \in {-MaxSlope, 1}}
    \cup {[k \in 1 .. 8 |-> d] : d \in {-1, MaxSlope}}
\* Sub-pixel grids: q steps between 0 and 1 on each axis; position un of a
\* grid is the double un / q.
MaxGrid == 4
PixelGrids == {3, MaxGrid}
GridPosition(un, q) == FDiv(FloatOf(un), FloatOf(q))

InitShade ==
    /\ yheight \in ShadeHeights
    /\ \E d \in Slopes : yneighbors = [k \in 1 .. 8 |-> yheight + d[k]]
    /\ \A k \in 1 .. 8 : yneighbors[k] >= 0
    /\ \E q \in PixelGrids : ypixel \in {<<un, vn, q>> : un \in 0 .. q, vn \in 0 .. q}
    /\ yret = NotCalled
    /\ IdleCell /\ IdleLookup /\ IdleTints /\ IdleFluid /\ IdleParse /\ IdleSurface
    /\ IdleRegion /\ IdleColumn /\ IdleBlend /\ IdleHeader
    /\ IdleColor
    /\ IdleMap
    /\ IdleMatch
    /\ IdleScan

CalculateShadingStep ==
    /\ yret = NotCalled
    /\ \E pixel_x \in {GridPosition(ypixel[1], ypixel[3])},
          pixel_z \in {GridPosition(ypixel[2], ypixel[3])} :
           yret' = Ok(CalculateShading(yheight, yneighbors, pixel_x, pixel_z))
    /\ UNCHANGED <<yheight, yneighbors, ypixel, varsCell, varsLookup, varsTints, varsFluid,
                   varsParse, varsSurface, varsRegion, varsColumn, varsBlend,
                   varsHeader, varsColor, varsMap, varsMatch, varsScan>>

NextShade == CalculateShadingStep

SpecShade == InitShade /\ [][NextShade]_vars

\* The multiplier of a flat neighbourhood: 0.8977368134706041.
FlatShade == [neg |-> FALSE, m |-> <<12314, 7057, 26890, 229>>, e |-> -53]

\* A double m / 2^53 is within 2^-53 of 0.4 + 0.6 * (0.8 / sqrt(0.93)), the
\* x with (5 * x - 2)^2 * 93 = 576:
\* (5 * (m - 1) - 2^54)^2 * 93 < 576 * 2^106 < (5 * (m + 1) - 2^54)^2 * 93.
NearFlatValue(x) ==
    LET Side(m) == BigSub(BigScale(m, 5), BigShl(<<1>>, 54))
        Weighed(m) == BigScale(BigMul(Side(m), Side(m)), 93)
        target == BigShl(BigOf(576), 106)
    IN  /\ ~x.neg /\ x.e = -53
        /\ BigCmp(Weighed(BigSub(x.m, <<1>>)), target) < 0
        /\ BigCmp(target, Weighed(BigAdd(x.m, <<1>>))) < 0

\* A multiplier rounds to 0.898 at three decimals: 0.8975 <= x < 0.8985.
RoundsTo898(x) ==
    /\ ~FLess(x, FDiv(FloatOf(8975), FloatOf(10000)))
    /\ FLess(x, FDiv(FloatOf(8985), FloatOf(10000)))

\* C19: for a flat neighbourhood (the eight neighbour heights equal to the
\* centre height h) calculate_shading returns, for every sub-pixel position
\* (u, v) in [0,1]^2 and every h, the same multiplier: both gradients are
\* exactly 0 and the value is 0.4 + 0.6 * (0.8 / sqrt(0.93)), about 0.898
\* (the double the code returns is within 2^-53 of that number).
C19_FlatShading ==
    (yret # NotCalled /\ \A k \in 1 .. 8 : yneighbors[k] = yheight) =>
        /\ Gradients(yheight, yneighbors, GridPosition(ypixel[1], ypixel[3]),
                     GridPosition(ypixel[2], ypixel[3])) = <<FloatZero, FloatZero>>
        /\ yret.val = FlatShade
        /\ NearFlatValue(FlatShade)
        /\ RoundsTo898(FlatShade)

\* C19 witness: a flat neighbourhood at height 64 shaded at (u, v) = (1/4, 1),
\* away from the centre of the cell.
C19_Witness ==
    /\ yheight = 64 /\ yneighbors = [k \in 1 .. 8 |-> 64]
    /\ ypixel = <<1, MaxGrid, MaxGrid>>
    /\ yret = Ok(FlatShade)

-----------------------------------------------------------------------------
(***************************************************************************)
(* SpecColor: load_block_properties, hex_to_rgb and get_block_color.  The  *)
(* table is a dict in file order: a sequence of [key, props] with distinct *)
(* keys.  In props an absent TintUp is the empty list, an absent           *)
(* ParticleColor the empty string and an absent BiomeTintUp is 0, which    *)
(* .get() does not tell apart.  A table object carries the number of the   *)
(* read that created it, so that two loads give two objects.               *)
(***************************************************************************)

\* None and an (r, g, b) tuple, as the value of a colour that may be None.
NoRgb == [none |-> TRUE, rgb |-> <<>>]
SomeRgb(c) == [none |-> FALSE, rgb |-> c]

\* _block_properties: None, or the object made by the id-th json.load.
NoTable == [none |-> TRUE, id |-> 0, entries |-> <<>>]
TableObject(id, entries) == [none |-> FALSE, id |-> id, entries |-> entries]

\* "if _block_properties is None" replaced by a test that always succeeds
MutCacheMiss(cache) == TRUE

\* if _block_properties is None
CacheMiss(cache) == cache.none

\* load_block_properties() with the given cache and file: what it returns or
\* raises, the cache and the number of reads afterwards.  open() raises for a
\* missing file; json.load reads the whole file and raises when it is not
\* JSON; the JSON value null loads as None.
LoadBlockProperties(cache, file, reads) ==
    IF CacheMiss(cache) THEN
        CASE file.kind = "missing" ->
                 [ret |-> Raise("FileNotFoundError"), cache |-> cache, reads |-> reads]
          [] file.kind = "invalid" ->
                 [ret |-> Raise("JSONDecodeError"), cache |-> cache, reads |-> reads + 1]
          [] file.kind = "null" ->
                 [ret |-> Ok(NoTable), cache |-> NoTable, reads |-> reads + 1]
          [] file.kind = "table" ->
                 LET loaded == TableObject(reads + 1, file.entries) IN
                 [ret |-> Ok(loaded), cache |-> loaded, reads |-> reads + 1]
    ELSE [ret |-> Ok(cache), cache |-> cache, reads |-> reads]

\* extract_block_properties: the entry made from an item file that holds a
\* BlockType: "Tint" or else "TintUp" or else [], BiomeTintUp with the
\* default 100 for a tinted block and 0 for another, and ParticleColor
\* (None, written as null, is the empty text here: both are falsy).
ExtractedProps(item) ==
    LET tint == IF Len(item.Tint) > 0 THEN item.Tint ELSE item.TintUp IN
    [TintUp |-> tint,
     BiomeTintUp |-> IF item.has_biome THEN item.BiomeTintUp
                     ELSE IF Len(tint) > 0 THEN 100 ELSE 0,
     ParticleColor |-> item.ParticleColor]

\* block_properties[block_name] = properties: a key keeps the place of
\* its first assignment and takes the value of the last.
AssignEntry(entries, key, props) ==
    IF \E i \in 1 .. Len(entries) : entries[i].key = key
    THEN [i \in 1 .. Len(entries) |->
             IF entries[i].key = key THEN [key |-> key, props |-> props] ELSE entries[i]]
    ELSE Append(entries, [key |-> key, props |-> props])

\* extract_block_properties(assets_path) over the item files in the order
\* rglob gives them: a file that is not JSON or has no BlockType is skipped.
RECURSIVE ExtractBlockProperties(_, _)
ExtractBlockProperties(files, block_properties) ==
    IF Len(files) = 0 THEN block_properties
    ELSE ExtractBlockProperties(
             Tail(files),
             IF Head(files).kind = "block"
             THEN AssignEntry(block_properties, Head(files).stem, ExtractedProps(Head(files)))
             ELSE block_properties)

\* The orders rglob may give the files of a directory in.
FileOrders(files) ==
    {order \in [1 .. Cardinality(files) -> files] :
        \A i, j \in 1 .. Cardinality(files) : i # j => order[i] # order[j]}

\* extract_block_properties.main(): what block_properties.json of the
\* directory of render_chunk.py may hold afterwards.  Nothing is written
\* without a directory Assets, and the file written is that one only when
\* the process runs in that directory.
ExtractMain(assets, file) ==
    IF ~assets.exists \/ ~assets.here THEN {file}
    ELSE {[kind |-> "table", entries |-> ExtractBlockProperties(order, <<>>)] :
             order \in FileOrders(assets.files)}

HashChar == 35

\* The code points of the digit zero of each decimal digit set of Unicode
\* (ASCII, Arabic-Indic, ... ): the nine after each are its digits 1 to 9.
DecimalZeros ==
    {48, 1632, 1776, 1984, 2406, 2534, 2662, 2790, 2918, 3046, 3174, 3302,
     3430, 3558, 3664, 3792, 3872, 4160, 4240, 6112, 6160, 6470, 6608, 6784,
     6800, 6992, 7088, 7232, 7248, 42528, 43216, 43264, 43472, 43504, 43600,
     44016, 65296, 66720, 68912, 69734, 69872, 69942, 70096, 70384, 70736,
     70864, 71248, 71360, 71472, 71904, 72016, 72784, 73040, 73120, 92768,
     92864, 93008, 120782, 120792, 120802, 120812, 120822, 123200, 123632,
     125264, 130032}

\* The value of one hexadecimal digit as int() reads it: a decimal digit of
\* any script or an ASCII letter a-f / A-F; -1 for any other character.
HexDigit(c) ==
    IF \E z \in DecimalZeros : c \in z .. (z + 9)
    THEN c - (CHOOSE z \in DecimalZeros : c \in z .. (z + 9))
    ELSE IF c \in 97 .. 102 THEN c - 87
    ELSE IF c \in 65 .. 70 THEN c - 55
    ELSE -1

\* The white space int() skips around the number: the ASCII characters
\* \t \n \v \f \r and space (0x1c .. 0x1f, which str.strip() removes, are
\* not among them), and the white space outside ASCII.
IntSpace ==
    (9 .. 13) \cup {32, 133, 160, 5760} \cup (8192 .. 8202)
        \cup {8232, 8233, 8239, 8287, 12288}

\* int(s, 16) for an s of at most two characters: surrounding white
\* space and one sign are accepted, then one or two hexadecimal digits.
IntBase16(s) ==
    LET LStrip(t) == IF Len(t) >= 1 /\ t[1] \in IntSpace THEN SubSeq(t, 2, Len(t)) ELSE t
        RStrip(t) == IF Len(t) >= 1 /\ t[Len(t)] \in IntSpace
                     THEN SubSeq(t, 1, Len(t) - 1) ELSE t
        Number(digits) == IF Len(digits) = 1 THEN HexDigit(digits[1])
                          ELSE 16 * HexDigit(digits[1]) + HexDigit(digits[2])
        Digits(negative, digits) ==
            IF Len(digits) = 0 \/ \E i \in 1 .. Len(digits) : HexDigit(digits[i]) < 0
            THEN Raise("ValueError")
            ELSE Ok(IF negative THEN -Number(digits) ELSE Number(digits))
        Signed(w) == IF Len(w) >= 1 /\ w[1] \in {43, 45}
                     THEN Digits(w[1] = 45, SubSeq(w, 2, Len(w)))
                     ELSE Digits(FALSE, w)
    IN  Signed(LStrip(RStrip(RStrip(LStrip(s)))))

\* hex_color.lstrip('#')
RECURSIVE LStripHash(_)
LStripHash(s) ==
    IF Len(s) >= 1 /\ s[1] = HashChar THEN LStripHash(SubSeq(s, 2, Len(s))) ELSE s

\* hex_to_rgb(hex_color): None, an (r, g, b) tuple or a ValueError.
HexToRgb(hex_color) ==
    LET Doubled(stripped) ==
            IF Len(stripped) = 3
            THEN <<stripped[1], stripped[1], stripped[2], stripped[2],
                   stripped[3], stripped[3]>>
            ELSE stripped
        Part(hex, i) == IntBase16(SubSeq(hex, i + 1, Min(i + 2, Len(hex))))
        Tuple(r, g, b) ==
            IF r.kind = "raise" THEN r
            ELSE IF g.kind = "raise" THEN g
            ELSE IF b.kind = "raise" THEN b
            ELSE Ok(SomeRgb(<<r.val, g.val, b.val>>))
        Parts(hex) == Tuple(Part(hex, 0), Part(hex, 2), Part(hex, 4))
    IN  IF Len(hex_color) = 0 \/ hex_color[1] # HashChar THEN Ok(NoRgb)
        ELSE Parts(Doubled(LStripHash(hex_color)))

\* base_color, biome_tint_percent and particle_color while entries are tried.
ColorState(base_color, biome_tint_percent, particle_color) ==
    [base_color |-> base_color, biome_tint_percent |-> biome_tint_percent,
     particle_color |-> particle_color]

\* The three steps done with a matched entry: TintUp as base colour,
\* ParticleColor, and ParticleColor as base when there is no base colour.
UseEntry(block_props, st) ==
    LET percent == IF Len(block_props.TintUp) > 0
                   THEN block_props.BiomeTintUp ELSE st.biome_tint_percent
        Result(tint, particle) ==
            IF tint.none /\ ~particle.none
            THEN Ok(ColorState(particle, percent, NoRgb))
            ELSE Ok(ColorState(tint, percent, particle))
        AfterParticle(tint, pc) ==
            IF pc.kind = "raise" THEN pc
            ELSE Result(tint.val, IF pc.val.none THEN st.particle_color ELSE pc.val)
        AfterTint(tint) ==
            IF tint.kind = "raise" THEN tint
            ELSE AfterParticle(tint, IF Len(block_props.ParticleColor) > 0
                                     THEN HexToRgb(block_props.ParticleColor)
                                     ELSE Ok(NoRgb))
    IN  AfterTint(IF Len(block_props.TintUp) > 0
                  THEN HexToRgb(block_props.TintUp[1]) ELSE Ok(st.base_color))

\* block_name.startswith(key)
StartsWith(block_name, key) ==
    Len(key) <= Len(block_name) /\ SubSeq(block_name, 1, Len(key)) = key

\* The prefix scan ending at the first entry whose key is a prefix of the
\* name, whether or not it gave a base colour.
RECURSIVE MutPrefixLoop(_, _, _, _)
MutPrefixLoop(entries, i, block_name, st) ==
    IF i > Len(entries) THEN Ok(st)
    ELSE IF ~StartsWith(block_name, entries[i].key)
         THEN MutPrefixLoop(entries, i + 1, block_name, st)
    ELSE UseEntry(entries[i].props, st)

\* "for key in properties" from entry i on: entries whose key is a prefix of
\* the name are used in file order until one gives a base colour.
RECURSIVE PrefixLoop(_, _, _, _)
PrefixLoop(entries, i, block_name, st) ==
    LET AfterUse(used) ==
            IF used.kind = "raise" THEN used
            ELSE IF ~used.val.base_color.none THEN used
            ELSE PrefixLoop(entries, i + 1, block_name, used.val)
    IN  IF i > Len(entries) THEN Ok(st)
        ELSE IF ~StartsWith(block_name, entries[i].key)
             THEN PrefixLoop(entries, i + 1, block_name, st)
        ELSE AfterUse(UseEntry(entries[i].props, st))

\* "Fallback colors"
FallbackColor(block_name) ==
    IF Contains(block_name, <<71, 114, 97, 115, 115>>) THEN <<103, 182, 45>>
    ELSE IF Contains(block_name, <<76, 101, 97, 118, 101, 115>>) THEN <<75, 133, 25>>
    ELSE IF Contains(block_name, <<83, 116, 111, 110, 101>>) \/ Contains(block_name, RockBytes)
         THEN <<120, 120, 120>>
    ELSE IF Contains(block_name, <<87, 111, 111, 100>>) \/ Contains(block_name, <<84, 114, 117, 110, 107>>)
         THEN <<120, 90, 50>>
    ELSE IF Contains(block_name, <<68, 105, 114, 116>>) \/ Contains(block_name, <<83, 111, 105, 108>>)
         THEN <<139, 90, 43>>
    ELSE IF Contains(block_name, <<83, 97, 110, 100>>) THEN <<220, 215, 200>>
    ELSE IF Contains(block_name, WaterBytes) THEN <<63, 118, 228>>
    ELSE <<128, 128, 128>>

\* multiplier = biome_tint_percent / 100.0
TintMultiplier(percent) == FDiv(FloatOf(percent), FloatOf(100))

\* int(base * (1.0 - multiplier) + tint * multiplier)
TintMix(base, tint, multiplier) ==
    Only({FloatToInt(FAdd(kept, added)) :
              kept \in {FMul(FloatOf(base), rest) : rest \in {FSub(FloatOf(1), multiplier)}},
              added \in {FMul(FloatOf(tint), multiplier)}})

\* (base * particle) // 255 on each channel
ParticleMultiply(base_color, particle_color) ==
    [c \in 1 .. 3 |-> (base_color[c] * particle_color[c]) \div 255]

\* r, g, b = int(base_color[..] * (1.0 - multiplier) + biome_tint[..] * multiplier)
Mixed(base_color, biome_tint, multiplier) ==
    [c \in 1 .. 3 |-> TintMix(base_color[c], biome_tint[c], multiplier)]

\* "Also apply particle color as a multiplier" to the mixed colour when told
MultipliedIf(multiply, mixed, particle_color) ==
    IF multiply THEN ParticleMultiply(mixed, particle_color.rgb) ELSE mixed

\* The branch "if biome_tint and biome_tint_percent > 0", the particle colour
\* multiplied in when multiplier <= 1.0
MutTinted(st, biome_tint, multiplier) ==
    MultipliedIf(~st.particle_color.none /\ ~FLess(FloatOf(1), multiplier),
                 Mixed(st.base_color.rgb, biome_tint.rgb, multiplier), st.particle_color)

\* The branch "if biome_tint and biome_tint_percent > 0": the particle colour
\* is multiplied in when there is one and multiplier < 1.0
Tinted(st, biome_tint, multiplier) ==
    MultipliedIf(~st.particle_color.none /\ FLess(multiplier, FloatOf(1)),
                 Mixed(st.base_color.rgb, biome_tint.rgb, multiplier), st.particle_color)

\* The end of get_block_color with the particle colour multiplied in after
\* a biome tint of exactly 100 percent as well.
MutApplyTint(st, biome_tint) ==
    IF ~biome_tint.none /\ st.biome_tint_percent > 0
    THEN Only({MutTinted(st, biome_tint, multiplier) :
                   multiplier \in {TintMultiplier(st.biome_tint_percent)}})
    ELSE IF ~st.particle_color.none
         THEN ParticleMultiply(st.base_color.rgb, st.particle_color.rgb)
    ELSE st.base_color.rgb

\* "Apply biome tinting if available" to the end of get_block_color.
ApplyTint(st, biome_tint) ==
    IF ~biome_tint.none /\ st.biome_tint_percent > 0
    THEN Only({Tinted(st, biome_tint, multiplier) :
                   multiplier \in {TintMultiplier(st.biome_tint_percent)}})
    ELSE IF ~st.particle_color.none
         THEN ParticleMultiply(st.base_color.rgb, st.particle_color.rgb)
    ELSE st.base_color.rgb

\* get_block_color(block_name, biome_tint) after load_block_properties has
\* returned the table with these entries.
GetBlockColor(block_name, biome_tint, entries) ==
    LET st0   == ColorState(NoRgb, 0, NoRgb)
        exact == {i \in 1 .. Len(entries) : entries[i].key = block_name}
        Fallback(st) ==
            IF st.base_color.none
            THEN [st EXCEPT !.base_color = SomeRgb(FallbackColor(block_name))]
            ELSE st
        AfterPrefix(st2) ==
            IF st2.kind = "raise" THEN st2
            ELSE Ok(ApplyTint(Fallback(st2.val), biome_tint))
        AfterExact(st1) ==
            IF st1.kind = "raise" THEN st1
            ELSE AfterPrefix(IF st1.val.base_color.none
                             THEN PrefixLoop(entries, 1, block_name, st1.val) ELSE st1)
    IN  AfterExact(IF exact = {} THEN Ok(st0)
                   ELSE UseEntry(entries[CHOOSE i \in exact : TRUE].props, st0))

\* A call of get_block_color in a process with the given cache and file:
\* "Empty" returns before the table is asked for; a table that loaded as
\* None makes "block_name in properties" a TypeError.
GetBlockColorCall(block_name, biome_tint, cache, file, reads) ==
    LET AfterLoad(properties) ==
            IF properties.ret.kind = "raise"
            THEN [ret |-> properties.ret, cache |-> properties.cache,
                  reads |-> properties.reads, loaded |-> {}]
            ELSE IF properties.ret.val.none
            THEN [ret |-> Raise("TypeError"), cache |-> properties.cache,
                  reads |-> properties.reads, loaded |-> {}]
            ELSE [ret |-> GetBlockColor(block_name, biome_tint,
                                        properties.ret.val.entries),
                  cache |-> properties.cache, reads |-> properties.reads,
                  loaded |-> {properties.ret.val}]
    IN  IF block_name = EmptyName
        THEN [ret |-> Ok(<<0, 0, 0>>), cache |-> cache, reads |-> reads, loaded |-> {}]
        ELSE AfterLoad(LoadBlockProperties(cache, file, reads))

\* ---- inputs of SpecColor ----
Props(tint_up, biome_tint_up, particle_color) ==
    [TintUp |-> tint_up, BiomeTintUp |-> biome_tint_up, ParticleColor |-> particle_color]
Entry(key, props) == [key |-> key, props |-> props]

\* Tables: a grass block tinted at 50 percent with a particle colour, a
\* prefix "Soil" with a particle colour only, a rock with a three-digit tint
\* at 100 percent; the same with the prefix entry first and a TintUp that is
\* not a colour; and the empty table.
GrassTable ==
    <<Entry(SoilGrassBytes, Props(<<<<35, 53, 66, 57, 69, 50, 56>>, <<35, 48, 48, 48, 48, 48, 48>>>>, 50, <<35, 99, 48, 102, 102, 99, 48>>)),
      Entry(<<83, 111, 105, 108>>, Props(<<>>, 0, <<35, 56, 98, 53, 97, 50, 98>>)),
      Entry(RockBytes, Props(<<<<35, 56, 56, 56>>>>, 100, <<35, 102, 102, 56, 48, 52, 48>>))>>
PrefixTable ==
    <<Entry(<<83, 111, 105, 108>>, Props(<<<<56, 98, 53, 97, 50, 98>>>>, 25, <<>>)),
      Entry(SoilGrassBytes, Props(<<<<35, 53, 66, 57, 69, 50, 56>>>>, 0, <<35, 35, 52, 48, 102, 102, 52, 48>>)),
      Entry(<<66, 97, 100>>, Props(<<<<35, 49, 50, 51, 52, 53>>>>, 0, <<35, 122, 122, 48, 48, 48, 48>>)),
      Entry(RockBytes, Props(<<<<35, 49, 50, 51, 52>>>>, 0, <<>>))>>
Tables == {GrassTable, PrefixTable, <<>>}

PropertyFiles ==
    {[kind |-> "table", entries |-> t] : t \in Tables}
    \cup {[kind |-> k, entries |-> <<>>] : k \in {"missing", "invalid", "null"}}

BlockNames ==
    {EmptyName, SoilGrassBytes, SoilGrassBytes \o <<95, 83, 117, 110, 110, 121>>, <<83, 111, 105, 108, 95, 77, 117, 100>>, RockBytes,
     RockBytes \o <<95, 83, 116, 111, 110, 101>>, <<66, 97, 100>>, <<76, 101, 97, 118, 101, 115, 95, 79, 97, 107>>, <<83, 97, 110, 100>>, <<85, 110, 107, 110, 111, 119, 110>>}
BiomeTints == {NoRgb, SomeRgb(<<40, 200, 80>>), SomeRgb(<<255, 255, 255>>)}

MaxCalls == 3

\* Item files of Assets/Server/Item/Items: a tinted grass block, a rock
\* without Tint, a block with TintUp and no BiomeTintUp, a file of the same
\* name in another directory, an item without BlockType and a file that is
\* not JSON.
BlockItem(stem, tint, tint_up, has_biome, biome_tint_up, particle_color) ==
    [stem |-> stem, kind |-> "block", Tint |-> tint, TintUp |-> tint_up,
     has_biome |-> has_biome, BiomeTintUp |-> biome_tint_up,
     ParticleColor |-> particle_color]
OtherItem(stem, kind) ==
    [stem |-> stem, kind |-> kind, Tint |-> <<>>, TintUp |-> <<>>,
     has_biome |-> FALSE, BiomeTintUp |-> 0, ParticleColor |-> <<>>]
GrassItem ==
    BlockItem(SoilGrassBytes, <<<<35, 53, 66, 57, 69, 50, 56>>>>, <<>>, TRUE, 30,
              <<35, 99, 48, 102, 102, 99, 48>>)
RockItem == BlockItem(RockBytes, <<>>, <<>>, FALSE, 0, <<>>)
SoilItem ==
    BlockItem(<<83, 111, 105, 108>>, <<>>, <<<<35, 56, 98, 53, 97, 50, 98>>>>, FALSE, 0, <<>>)
SoilTwin ==
    BlockItem(<<83, 111, 105, 108>>, <<>>, <<<<35, 49, 49, 49>>>>, TRUE, 0, <<>>)
ToolItem == OtherItem(<<84, 111, 111, 108>>, "plain")
BadItem == OtherItem(<<66, 97, 100>>, "invalid")

\* No Assets; Assets in the directory of render_chunk.py, with and without
\* item files; Assets in another working directory.
AssetDirs ==
    {[exists |-> FALSE, here |-> TRUE, files |-> {}],
     [exists |-> TRUE, here |-> TRUE, files |-> {GrassItem, RockItem, ToolItem}],
     [exists |-> TRUE, here |-> TRUE, files |-> {SoilItem, SoilTwin, BadItem}],
     [exists |-> TRUE, here |-> TRUE, files |-> {}],
     [exists |-> TRUE, here |-> FALSE, files |-> {GrassItem}]}

InitColor ==
    /\ kfile \in PropertyFiles
    /\ kassets \in AssetDirs
    /\ kcache = NoTable /\ kreads = 0 /\ kcalls = 0 /\ ktables = {}
    /\ kcall = "" /\ kret = NotCalled
    /\ IdleCell /\ IdleLookup /\ IdleTints /\ IdleFluid /\ IdleParse /\ IdleSurface
    /\ IdleRegion /\ IdleColumn /\ IdleBlend /\ IdleHeader /\ IdleShade
    /\ IdleMap
    /\ IdleMatch
    /\ IdleScan

LoadBlockPropertiesStep ==
    /\ kcalls < MaxCalls
    /\ LET r == LoadBlockProperties(kcache, kfile, kreads) IN
          /\ kret' = r.ret /\ kcache' = r.cache /\ kreads' = r.reads
          /\ ktables' = ktables \cup (IF r.ret.kind = "ok" /\ ~r.ret.val.none
                                     THEN {r.ret.val} ELSE {})
    /\ kcalls' = kcalls + 1 /\ kcall' = "load_block_properties"
    /\ UNCHANGED <<kfile, kassets, varsCell, varsLookup, varsTints, varsFluid, varsParse,
                   varsSurface, varsRegion, varsColumn, varsBlend, varsHeader,
                   varsShade, varsMap, varsMatch, varsScan>>

GetBlockColorStep ==
    /\ kcalls < MaxCalls
    /\ \E block_name \in BlockNames, biome_tint \in BiomeTints :
          LET r == GetBlockColorCall(block_name, biome_tint, kcache, kfile, kreads) IN
             /\ kret' = r.ret /\ kcache' = r.cache /\ kreads' = r.reads
             /\ ktables' = ktables \cup r.loaded
    /\ kcalls' = kcalls + 1 /\ kcall' = "get_block_color"
    /\ UNCHANGED <<kfile, kassets, varsCell, varsLookup, varsTints, varsFluid, varsParse,
                   varsSurface, varsRegion, varsColumn, varsBlend, varsHeader,
                   varsShade, varsMap, varsMatch, varsScan>>

\* extract_block_properties.main()
ExtractMainStep ==
    /\ kcalls < MaxCalls
    /\ kfile' \in ExtractMain(kassets, kfile)
    /\ kret' = [kind |-> "None", val |-> 0]
    /\ kcalls' = kcalls + 1 /\ kcall' = "main"
    /\ UNCHANGED <<kassets, kcache, kreads, ktables, varsCell, varsLookup, varsTints,
                   varsFluid, varsParse, varsSurface, varsRegion, varsColumn,
                   varsBlend, varsHeader, varsShade, varsMap, varsMatch, varsScan>>

NextColor == LoadBlockPropertiesStep \/ GetBlockColorStep \/ ExtractMainStep

SpecColor == InitColor /\ [][NextColor]_vars

\* The file was read at most once, and every table object returned is the
\* one the cache holds, with what it held when it was returned.
ReadOnce ==
    /\ kreads <= 1
    /\ ktables \subseteq {kcache}

\* C17: over any sequence of get_block_color / load_block_properties calls
\* of one process the table is read from its file at most once, every call
\* returns the same table object, and no call changes what it holds.
C17_TableReadOnce == ReadOnce

\* C17 as the code has it: once a read has given a JSON object the file is
\* not read again, whatever is written to it, and every table object
\* returned is that one, unchanged; a read that gave no table (a file that
\* is not JSON, or holds null) leaves the cache None, and so does a missing
\* file, which is not read.
C17_TableReadOnceWhenLoaded ==
    /\ ~kcache.none => (kreads = kcache.id /\ ktables = {kcache})
    /\ kcache.none => ktables = {}
    /\ (kcache.none /\ kfile.kind = "missing") => kreads = 0
    /\ (kcall = "load_block_properties" /\ kfile.kind \in {"invalid", "null"}) =>
           (kcache.none /\ kreads >= 1)

\* C17 witness: load_block_properties read the table, main() then wrote
\* another table to the file, and a get_block_color after that used the
\* table of the single read.
C17_Witness ==
    /\ kfile.kind = "table" /\ kfile.entries # GrassTable
    /\ kcalls = MaxCalls /\ kreads = 1
    /\ ktables = {kcache} /\ kcache = TableObject(1, GrassTable)
    /\ kcall = "get_block_color" /\ kret = Ok(<<48, 179, 45>>)

-----------------------------------------------------------------------------
(***************************************************************************)
(* SpecMap: render_map.  The call is followed from step to step: the image *)
(* is created, then for each chunk of the range the chunk is read and its  *)
(* heightmap parsed, the surface block names are collected, the pixels are *)
(* written; at the end the image is saved.  An exception raised by any     *)
(* call ends render_map, which has no handler.                             *)
(*                                                                         *)
(* A chunk document holds Components.BlockChunk (if any) and the list      *)
(* Components.ChunkColumn.Sections, kept twice: as find_surface_height     *)
(* reads it (block_sections, indexed from 0) and as find_surface_fluid     *)
(* reads it (fluid_sections).                                              *)
(***************************************************************************)
Document(has_block_chunk, data, block_sections, fluid_sections) ==
    [has_block_chunk |-> has_block_chunk, data |-> data,
     block_sections |-> block_sections, fluid_sections |-> fluid_sections]

\* The document bson.decode gives for a decompressed frame: the one the
\* world holds for the table entry whose segment the frame carries.
DocumentOf(world, frame) ==
    LET segment == BigEndian(SubSeq(frame, 5, 8))
        k == CHOOSE k \in 0 .. (TableEntries - 1) : TableValue(world.region, k) = segment
    IN  world.docs[k]

RenderArgs(start_x, start_z, end_x, end_z, pixels_per_block, enable_shading) ==
    [start_x |-> start_x, start_z |-> start_z, end_x |-> end_x, end_z |-> end_z,
     pixels_per_block |-> pixels_per_block, enable_shading |-> enable_shading]

ChunksWidth(a) == a.end_x - a.start_x + 1
ChunksHeight(a) == a.end_z - a.start_z + 1
ImgWidth(a) == ChunksWidth(a) * 32 * a.pixels_per_block
ImgHeight(a) == ChunksHeight(a) * 32 * a.pixels_per_block

\* Image.new('RGB', (img_width, img_height)): every pixel black.
NewImage(width, height) ==
    [pix \in (0 .. (width - 1)) \X (0 .. (height - 1)) |-> <<0, 0, 0>>]

\* The i-th chunk of "for chunk_z ...: for chunk_x ...", and the number of
\* passes the two loops make: range(start, end + 1) is empty when end < start.
ChunkAt(a, i) == <<a.start_x + (i % ChunksWidth(a)), a.start_z + (i \div ChunksWidth(a))>>
ChunkCount(a) == Max(0, ChunksWidth(a)) * Max(0, ChunksHeight(a))

\* pixel_img_x with the block and the sub-pixel exchanged
MutPixelImg(chunk, start, block, sub, pixels_per_block) ==
    (chunk - start) * 32 * pixels_per_block + block + sub * pixels_per_block

\* pixel_img_x = (chunk_x - start_x) * 32 * pixels_per_block
\*               + x * pixels_per_block + sub_x, and pixel_img_z alike.
PixelImg(chunk, start, block, sub, pixels_per_block) ==
    (chunk - start) * 32 * pixels_per_block + block * pixels_per_block + sub

\* (n, s, w, e, nw, ne, sw, se) of column (x, z): the height of the column
\* itself where the neighbour lies outside the chunk.
NeighborHeights(heights, x, z) ==
    LET height == heights[z][x] IN
    <<IF z > 0 THEN heights[z - 1][x] ELSE height,
      IF z < 31 THEN heights[z + 1][x] ELSE height,
      IF x > 0 THEN heights[z][x - 1] ELSE height,
      IF x < 31 THEN heights[z][x + 1] ELSE height,
      IF z > 0 /\ x > 0 THEN heights[z - 1][x - 1] ELSE height,
      IF z > 0 /\ x < 31 THEN heights[z - 1][x + 1] ELSE height,
      IF z < 31 /\ x > 0 THEN heights[z + 1][x - 1] ELSE height,
      IF z < 31 /\ x < 31 THEN heights[z + 1][x + 1] ELSE height>>

\* int(min(255, base * shade)): min gives base * shade when that is less
\* than 255 and the int 255 otherwise.
MinInt(v) == IF FLess(v, FloatOf(255)) THEN FloatToInt(v) ELSE 255
ShadedChannel(base, shade) == MinInt(FMul(FloatOf(base), shade))

\* pixel_x = (sub_x + 0.5) / pixels_per_block
PixelPosition(sub, pixels_per_block) ==
    FDiv(FAdd(FloatOf(sub), Tenths(5)), FloatOf(pixels_per_block))

\* biome_tints[z][x], None where the tint loop wrote nothing.
TintAt(tints, x, z) == IF tints[z][x] = NoColor THEN NoRgb ELSE SomeRgb(tints[z][x])

\* find_surface_fluid(chunk_data, x, z, height) for column (x, z).
ColumnFluid(data, x, z) ==
    FindSurfaceFluid(data.chunk_data.fluid_sections, x, z, data.heights[z][x])

\* The arguments of get_block_color for column (x, z), and the call with
\* them taken once for the columns that pass the same block and tint.
ColumnArgs(data, blocks, x, z) == <<blocks[z][x], TintAt(data.biome_tints, x, z)>>
BaseCalls(data, blocks, props) ==
    [k \in {ColumnArgs(data, blocks, i % 32, i \div 32) : i \in 0 .. 1023} |->
        GetBlockColorCall(k[1], k[2], props.cache, props.file, props.reads).ret]

\* get_block_color for the 1024 columns, column (x, z) at z * 32 + x.
ChunkBases(data, blocks, props) ==
    Only({[i \in 0 .. 1023 |-> calls[ColumnArgs(data, blocks, i % 32, i \div 32)]] :
              calls \in {BaseCalls(data, blocks, props)}})

\* find_surface_fluid for the 1024 columns.
ChunkFluids(data) ==
    [i \in 0 .. 1023 |-> ColumnFluid(data, i % 32, i \div 32)]

\* What the pixel loops compute for a column before its sub-pixels, from the
\* results of its two calls: Ok(<<base colour, <<fluid_type, fluid_depth>>>>),
\* or the exception of get_block_color, or else that of find_surface_fluid.
ColumnResult(base, fluid) ==
    IF base.kind = "raise" THEN base
    ELSE IF fluid.kind = "raise" THEN fluid
    ELSE Ok(<<base.val, fluid.val>>)

\* The same for the 1024 columns.
ChunkColumns(bases, fluids) ==
    [i \in 0 .. 1023 |-> ColumnResult(bases[i], fluids[i])]

\* "Apply shading" to the three channels
Shaded(base, shade) == [c \in 1 .. 3 |-> ShadedChannel(base[c], shade)]

\* shade = calculate_shading(height, neighbors, pixel_x, pixel_z) "if
\* args.enable_shading", else 1.0
PixelShade(height, neighbors, a, pixel_x, pixel_z) ==
    IF a.enable_shading
    THEN CalculateShading(height, neighbors, pixel_x, pixel_z)
    ELSE FloatOf(1)

\* "Apply fluid if present"
FluidOver(rgb, fluid) ==
    IF ~Falsy(fluid[1]) /\ fluid[2] > 0
    THEN BlendFluidColor(rgb, fluid[1], fluid[2]).val
    ELSE rgb

\* What the loops read for column (x, z) whose calls returned: the base
\* colour and the fluid, the height, the heights of the neighbours.
ColumnReads(columns, heights, x, z) ==
    <<columns[z * 32 + x].val, heights[z][x], NeighborHeights(heights, x, z)>>

\* The same for the columns of a chunk; nothing is read for a column whose
\* call raised.
ChunkReads(columns, heights) ==
    [i \in 0 .. 1023 |->
        IF columns[i].kind = "ok" THEN ColumnReads(columns, heights, i % 32, i \div 32)
        ELSE <<>>]

\* (r, g, b) written for sub-pixel (sub_x, sub_z) of a column with these
\* reads: base colour, shading, fluid.
PixelColor(reads, a, sub_x, sub_z) ==
    Only({FluidOver(Shaded(reads[1][1], shade), reads[1][2]) :
              shade \in {PixelShade(reads[2], reads[3], a, pixel_x, pixel_z) :
                             pixel_x \in {PixelPosition(sub_x, a.pixels_per_block)},
                             pixel_z \in {PixelPosition(sub_z, a.pixels_per_block)}}})

\* PixelColor for every sub-pixel of the columns whose calls returned, taken
\* once for the sub-pixels that read the same values.
PixelColors(reads, a) ==
    [k \in {<<reads[i], sub[1], sub[2]>> :
                i \in {j \in 0 .. 1023 : reads[j] # <<>>},
                sub \in (0 .. (a.pixels_per_block - 1)) \X (0 .. (a.pixels_per_block - 1))}
        |-> PixelColor(k[1], a, k[2], k[3])]

\* The place of a pixel assignment in the order the loops make them:
\* z, then x, then sub_z, then sub_x.
WriteNumber(x, z, sub_x, sub_z, pixels_per_block) ==
    ((z * 32 + x) * pixels_per_block + sub_z) * pixels_per_block + sub_x

\* Along one axis, the <<block, sub>> pairs whose pixel_img is at.
AxisWriters(chunk, start, pixels_per_block, at) ==
    {bs \in (0 .. 31) \X (0 .. (pixels_per_block - 1)) :
        PixelImg(chunk, start, bs[1], bs[2], pixels_per_block) = at}

\* The same for every position of an axis of the image.
AxisMap(chunk, start, pixels_per_block, size) ==
    [at \in 0 .. (size - 1) |-> AxisWriters(chunk, start, pixels_per_block, at)]

\* The assignments of the pixel loops that fall on pixel pix, among the first
\* limit assignments, as <<x, z, sub_x, sub_z>>.
PixelWriters(xs, zs, pixels_per_block, pix, limit) ==
    {w \in {<<bx[1], bz[1], bx[2], bz[2]>> : bx \in xs[pix[1]], bz \in zs[pix[2]]} :
        WriteNumber(w[1], w[2], w[3], w[4], pixels_per_block) < limit}

\* The last of a set of assignments.
LastWriter(ws, pixels_per_block) ==
    CHOOSE w \in ws : \A v \in ws :
        WriteNumber(v[1], v[2], v[3], v[4], pixels_per_block)
            <= WriteNumber(w[1], w[2], w[3], w[4], pixels_per_block)

\* The number of the first assignment that is not made: the first one of a
\* column whose calls raise, or the first one outside the image; the number
\* of assignments of a chunk when there is none.
WriteLimit(columns, a, chunk) ==
    LET p == a.pixels_per_block
        raising == {i \in 0 .. 1023 : columns[i].kind = "raise"}
        outside == {w \in (0 .. 31) \X (0 .. 31) \X (0 .. (p - 1)) \X (0 .. (p - 1)) :
                       \/ PixelImg(chunk[1], a.start_x, w[1], w[3], p)
                              \notin 0 .. (ImgWidth(a) - 1)
                       \/ PixelImg(chunk[2], a.start_z, w[2], w[4], p)
                              \notin 0 .. (ImgHeight(a) - 1)}
        stops == {i * p * p : i \in raising}
                 \cup {WriteNumber(w[1], w[2], w[3], w[4], p) : w \in outside}
    IN  IF stops = {} THEN 1024 * p * p
        ELSE CHOOSE n \in stops : \A m \in stops : n <= m

\* The exception that stops the pixel loops at assignment number limit.
WriteException(columns, a, limit) ==
    LET p == a.pixels_per_block
        r == columns[limit \div (p * p)]
    IN  IF limit % (p * p) = 0 /\ r.kind = "raise" THEN r.val ELSE "IndexError"

\* _block_properties and the reads of its file after the pixel loops made
\* their first limit assignments: get_block_color loads the table for the
\* first column that is not "Empty", and the loops end there unless the
\* table is then cached.
PropsAfter(blocks, props, a, limit) ==
    LET p == a.pixels_per_block
        last == Min(limit \div (p * p), 1023)
    IN  IF \E i \in 0 .. last : blocks[i \div 32][i % 32] # EmptyName
        THEN LET r == LoadBlockProperties(props.cache, props.file, props.reads) IN
             [props EXCEPT !.cache = r.cache, !.reads = r.reads]
        ELSE props

\* ---- inputs of SpecMap ----
\* The BlockChunk blob of a generated chunk: the same heightmap value in
\* every column, and the same tint.
FlatBlob ==
    BlockChunkBlob([hp |-> <<0, 102>>, tp |-> <<0, 5>>,
                    hcount |-> ColumnCount, tcount |-> ColumnCount, len |-> 1280])

\* A block section filled with one block, and a fluid section filled with
\* water of level 3.
SolidSection(id) ==
    BlockSection(CodeLayoutHead(1, SurfacePalette) \o SectionArray(1, {}, id))
PoolSection ==
    FluidSection(<<1>> \o BE16(Len(ColumnPalette)) \o PaletteBytes(1, ColumnPalette)
                 \o SectionArray(1, {}, 1) \o SectionArray(1, {}, 3))

\* Documents: a chunk of air; grass, or rock under water, in the top section;
\* a chunk without BlockChunk; one whose BlockChunk blob is cut after two
\* bytes; one with nine sections.
SectionList(n, top) == [s \in 0 .. (n - 1) |-> IF s = 9 THEN top ELSE NoBlock]
FluidList(n, top) == [s \in 1 .. n |-> IF s = 10 THEN top ELSE NoFluidSection]
AirDocument ==
    Document(TRUE, FlatBlob, SectionList(10, NoBlock), FluidList(10, NoFluidSection))
DocumentKind(kind) ==
    CASE kind = "air"   -> AirDocument
      [] kind = "grass" -> Document(TRUE, FlatBlob, SectionList(10, SolidSection(1)),
                                    FluidList(10, NoFluidSection))
      [] kind = "pool"  -> Document(TRUE, FlatBlob, SectionList(10, SolidSection(3)),
                                    FluidList(10, PoolSection))
      [] kind = "bare"  -> Document(FALSE, <<>>, SectionList(10, NoBlock),
                                    FluidList(10, NoFluidSection))
      [] kind = "cut"   -> Document(TRUE, SubSeq(FlatBlob, 1, 2), SectionList(10, NoBlock),
                                    FluidList(10, NoFluidSection))
      [] kind = "short" -> Document(TRUE, FlatBlob, SectionList(9, NoBlock),
                                    FluidList(9, NoFluidSection))

\* The region file 0.0.region.bin with its table entries, or no file at all.
\* No other region file exists, so that a chunk with a negative coordinate
\* has none.
MapRegion(pat, k0, cut, regions) ==
    [pat |-> pat, k0 |-> k0, segsize |-> IF pat = "wide" THEN 16 ELSE 4096,
     cut |-> cut, regions |-> regions, magic |-> "good"]

\* The table entries of chunks (0, 0), (1, 0), (0, 1) and (1, 1).
MapIndexes == {0, 1, 32, 33}

\* kinds gives the documents of chunks (0, 0) and (1, 0); chunks (0, 1) and
\* (1, 1) are chunks of air.
World(region, kinds) ==
    [region |-> region,
     docs |-> [k \in MapIndexes |->
                  IF k < Len(kinds) THEN DocumentKind(kinds[k + 1]) ELSE AirDocument]]

\* Every chunk present; chunk (1, 0) with segment 0; no region file; every
\* segment 0 but that of chunk (0, 0); chunk (1, 0) with a cut heightmap blob, a cut compressed
\* frame, no BlockChunk, nine sections; no block_properties.json.
AllPresent == MapRegion("hole", 1023, "full", {<<0, 0>>})
WorldNames ==
    {"whole", "hole", "nofile", "only", "cut", "zstd", "bare", "short", "noprops"}
WorldNamed(name) ==
    CASE name = "whole"   -> World(AllPresent, <<"grass", "pool">>)
      [] name = "hole"    -> World(MapRegion("hole", 1, "full", {<<0, 0>>}), <<"grass", "pool">>)
      [] name = "nofile"  -> World(MapRegion("zero", 0, "full", {}), <<"air", "air">>)
      [] name = "only"    -> World(MapRegion("only", 0, "full", {<<0, 0>>}), <<"grass", "pool">>)
      [] name = "cut"     -> World(AllPresent, <<"grass", "cut">>)
      [] name = "zstd"    -> World(MapRegion("wide", 1, "frame", {<<0, 0>>}), <<"grass", "air">>)
      [] name = "bare"    -> World(AllPresent, <<"grass", "bare">>)
      [] name = "short"   -> World(AllPresent, <<"grass", "short">>)
      [] name = "noprops" -> World(AllPresent, <<"air", "grass">>)

PropsOf(name) ==
    [file  |-> IF name = "noprops" THEN [kind |-> "missing", entries |-> <<>>]
               ELSE [kind |-> "table", entries |-> GrassTable],
     cache |-> NoTable, reads |-> 0]

\* (start_x, start_z, end_x, end_z): one row of two chunks, the same with a
\* column of region -1, two rows, and single chunks.
Row == <<0, 0, 1, 0>>
Ranges == {Row, <<-1, 0, 0, 0>>, <<0, 0, 1, 1>>, <<1, 0, 1, 0>>}
Scales == {1, 2, 3}

\* The calls: every world over the row at one pixel per block, shaded;
\* the worlds without a failing chunk over every range, unshaded; the whole
\* world by single chunks at every scale, shaded and not.
Calls ==
    {<<name, RenderArgs(Row[1], Row[2], Row[3], Row[4], 1, TRUE)>> : name \in WorldNames}
    \cup {<<name, RenderArgs(r[1], r[2], r[3], r[4], 1, FALSE)>> :
             name \in {"whole", "hole", "nofile", "only", "bare"}, r \in Ranges}
    \cup {<<"whole", RenderArgs(x, 0, x, 0, p, s)>> :
             x \in {0, 1}, p \in Scales, s \in BOOLEAN}
    \cup {<<name, RenderArgs(Row[1], Row[2], Row[3], Row[4], 2, TRUE)>> :
             name \in {"whole", "hole"}}

InitMap ==
    /\ \E call \in Calls :
          /\ mworld = WorldNamed(call[1])
          /\ mprops = PropsOf(call[1])
          /\ margs = call[2]
    /\ mpc = "call" /\ mi = 0 /\ mdata = <<>> /\ mblocks = <<>>
    /\ mimg = <<>> /\ mwrites = <<>> /\ mlog = <<>> /\ mexc = ""
    /\ IdleCell /\ IdleLookup /\ IdleTints /\ IdleFluid /\ IdleParse /\ IdleSurface
    /\ IdleRegion /\ IdleColumn /\ IdleBlend /\ IdleHeader /\ IdleShade /\ IdleColor
    /\ IdleMatch
    /\ IdleScan

\* "Create output image"
CreateImageStep ==
    /\ mpc = "call"
    /\ mimg' = NewImage(ImgWidth(margs), ImgHeight(margs))
    /\ mwrites' = [pix \in DOMAIN NewImage(ImgWidth(margs), ImgHeight(margs)) |-> 0]
    /\ mpc' = "loop"
    /\ UNCHANGED <<mworld, mprops, margs, mi, mdata, mblocks, mlog, mexc>>
    /\ UNCHANGED <<varsCell, varsLookup, varsTints, varsFluid, varsParse, varsSurface,
                   varsRegion, varsColumn, varsBlend, varsHeader, varsShade,
                   varsColor, varsMatch, varsScan>>

\* One pass of the chunk loop up to "heights, biome_tints = parsed_data":
\* read_chunk_data and parse_biome_tints, with the two "continue".
ReadChunkStep ==
    /\ mpc = "loop" /\ mi < ChunkCount(margs)
    /\ \E chunk \in {ChunkAt(margs, mi)} :
       \E chunk_data \in {ReadChunkData(mworld.region, chunk[1], chunk[2]).ret} :
       IF chunk_data.kind = "raise"
       THEN /\ mpc' = "raised" /\ mexc' = chunk_data.val
            /\ UNCHANGED <<mi, mdata, mlog>>
       ELSE IF chunk_data.kind = "None"
       THEN /\ mlog' = Append(mlog, <<chunk, "not found">>)
            /\ mi' = mi + 1
            /\ UNCHANGED <<mpc, mdata, mexc>>
       ELSE
       \E document \in {DocumentOf(mworld, chunk_data.val.frame)} :
       \E parsed_data \in {ParseBiomeTints(document)} :
       IF parsed_data.kind = "raise"
       THEN /\ mpc' = "raised" /\ mexc' = parsed_data.val
            /\ UNCHANGED <<mi, mdata, mlog>>
       ELSE IF parsed_data.kind = "None"
       THEN /\ mlog' = Append(mlog, <<chunk, "no data">>)
            /\ mi' = mi + 1
            /\ UNCHANGED <<mpc, mdata, mexc>>
       ELSE /\ mdata' = [chunk_data |-> document,
                         heights |-> parsed_data.val.heightmap,
                         biome_tints |-> parsed_data.val.tint_colors]
            /\ mpc' = "blocks"
            /\ UNCHANGED <<mi, mlog, mexc>>
    /\ UNCHANGED <<mworld, mprops, margs, mblocks, mimg, mwrites>>
    /\ UNCHANGED <<varsCell, varsLookup, varsTints, varsFluid, varsParse, varsSurface,
                   varsRegion, varsColumn, varsBlend, varsHeader, varsShade,
                   varsColor, varsMatch, varsScan>>

\* "Get block names at each surface position": find_surface_height for the
\* 1024 columns, column (x, z) at z * 32 + x; the first exception ends
\* render_map.
SurfaceBlocksStep ==
    /\ mpc = "blocks"
    /\ \E found \in {[i \in 0 .. 1023 |->
                        FindSurfaceHeight(mdata.chunk_data.block_sections,
                                          i % 32, i \div 32)]} :
       \E raising \in {{i \in 0 .. 1023 : found[i].kind = "raise"}} :
       IF raising # {}
       THEN /\ mpc' = "raised"
            /\ mexc' = found[CHOOSE i \in raising : \A j \in raising : i <= j].val
            /\ UNCHANGED mblocks
       ELSE /\ mblocks' = [z \in 0 .. 31 |-> [x \in 0 .. 31 |-> found[z * 32 + x].val[2]]]
            /\ mpc' = "pixels"
            /\ UNCHANGED mexc
    /\ UNCHANGED <<mworld, mprops, margs, mi, mdata, mimg, mwrites, mlog>>
    /\ UNCHANGED <<varsCell, varsLookup, varsTints, varsFluid, varsParse, varsSurface,
                   varsRegion, varsColumn, varsBlend, varsHeader, varsShade,
                   varsColor, varsMatch, varsScan>>

\* "Render pixels for this chunk": the assignments pixels[pixel_img_x,
\* pixel_img_z] = (r, g, b) in loop order, up to the first call that raises.
RenderPixelsStep ==
    /\ mpc = "pixels"
    /\ \E chunk \in {ChunkAt(margs, mi)}, p \in {margs.pixels_per_block} :
       \E bases \in {ChunkBases(mdata, mblocks, mprops)}, fluids \in {ChunkFluids(mdata)} :
       \E columns \in {ChunkColumns(bases, fluids)} :
       \E limit \in {WriteLimit(columns, margs, chunk)} :
       \E xs \in {AxisMap(chunk[1], margs.start_x, p, ImgWidth(margs))} :
       \E zs \in {AxisMap(chunk[2], margs.start_z, p, ImgHeight(margs))} :
       \E writers \in {[pix \in DOMAIN mimg |-> PixelWriters(xs, zs, p, pix, limit)]} :
       \E reads \in {ChunkReads(columns, mdata.heights)} :
       \E colors \in {PixelColors(reads, margs)} :
       /\ mimg' = [pix \in DOMAIN mimg |->
                     IF writers[pix] = {} THEN mimg[pix]
                     ELSE LET w == LastWriter(writers[pix], p) IN
                          colors[<<reads[w[2] * 32 + w[1]], w[3], w[4]>>]]
       /\ mwrites' = [pix \in DOMAIN mwrites |-> mwrites[pix] + Cardinality(writers[pix])]
       /\ mprops' = PropsAfter(mblocks, mprops, margs, limit)
       /\ IF limit < 1024 * p * p
          THEN /\ mpc' = "raised"
               /\ mexc' = WriteException(columns, margs, limit)
               /\ UNCHANGED <<mi, mlog>>
          ELSE /\ mpc' = "loop"
               /\ mlog' = Append(mlog, <<chunk, "rendered">>)
               /\ mi' = mi + 1
               /\ UNCHANGED mexc
    /\ UNCHANGED <<mworld, margs, mdata, mblocks>>
    /\ UNCHANGED <<varsCell, varsLookup, varsTints, varsFluid, varsParse, varsSurface,
                   varsRegion, varsColumn, varsBlend, varsHeader, varsShade,
                   varsColor, varsMatch, varsScan>>

\* "Save image", after the last chunk of the range.
SaveImageStep ==
    /\ mpc = "loop" /\ mi = ChunkCount(margs)
    /\ mpc' = "saved"
    /\ UNCHANGED <<mworld, mprops, margs, mi, mdata, mblocks, mimg, mwrites, mlog,
                   mexc>>
    /\ UNCHANGED <<varsCell, varsLookup, varsTints, varsFluid, varsParse, varsSurface,
                   varsRegion, varsColumn, varsBlend, varsHeader, varsShade,
                   varsColor, varsMatch, varsScan>>

NextMap ==
    \/ CreateImageStep
    \/ ReadChunkStep
    \/ SurfaceBlocksStep
    \/ RenderPixelsStep
    \/ SaveImageStep

SpecMap == InitMap /\ [][NextMap]_vars

\* ---- claims on render_map ----
\* Exceptions of the calls that decode a chunk: zstd.decompress, and
\* struct.unpack on a truncated blob.
DecodeErrors == {"ZstdError", "struct.error"}

\* C14: a chunk whose decoding fails is skipped as if absent; render_map
\* does not end with the exception of a decompression or of a truncated blob.
C14_DecodeFailureSkipsChunk == mpc = "raised" => mexc \notin DecodeErrors

\* The chunk is found: its region file exists and its table entry is not 0.
ChunkFound(world, chunk) ==
    /\ <<chunk[1] \div 32, chunk[2] \div 32>> \in world.region.regions
    /\ TableValue(world.region, (chunk[1] % 32) + (chunk[2] % 32) * 32) # 0

\* C15: when the chunk the loop is at is not found (no region file, or
\* segment 0), the pass leaves every pixel of the image as it was, writes
\* none, and the loop goes on with the next chunk of the range.
C15_NotFoundLeavesImage ==
    [][(mpc = "loop" /\ mi < ChunkCount(margs) /\ ~ChunkFound(mworld, ChunkAt(margs, mi)))
          => (mimg' = mimg /\ mwrites' = mwrites /\ mpc' = "loop" /\ mi' = mi + 1)]_vars

\* A 2 x 2 render whose second chunk has segment 0: the chunk is logged as
\* not found, its tile is black and unwritten, and the chunks before and
\* after it are rendered and the image saved.
C15_Witness ==
    /\ mpc = "saved" /\ ChunkCount(margs) = 4
    /\ ~ChunkFound(mworld, <<1, 0>>)
    /\ mlog = << <<<<0, 0>>, "rendered">>, <<<<1, 0>>, "not found">>,
                 <<<<0, 1>>, "rendered">>, <<<<1, 1>>, "rendered">> >>
    /\ \A pix \in (32 .. 63) \X (0 .. 31) : mwrites[pix] = 0 /\ mimg[pix] = <<0, 0, 0>>
    /\ mwrites[<<0, 0>>] = 1 /\ mimg[<<0, 0>>] = <<33, 119, 27>>
    /\ mwrites[<<63, 63>>] = 1

\* The pixels of the tile of chunk (cx, cz): x in [(cx - start_x) * 32 * p,
\* (cx - start_x + 1) * 32 * p) and y alike.
Tile(a, chunk) ==
    LET side == 32 * a.pixels_per_block IN
    (((chunk[1] - a.start_x) * side) .. ((chunk[1] - a.start_x + 1) * side - 1))
    \X (((chunk[2] - a.start_z) * side) .. ((chunk[2] - a.start_z + 1) * side - 1))

\* C18: the image is (end_x - start_x + 1) * 32 * p by
\* (end_z - start_z + 1) * 32 * p, and the pixel loops of a chunk write each
\* pixel of the chunk's tile exactly once, no pixel of another tile, and
\* none outside the image.
C18_TilesWrittenOnce ==
    [][/\ mimg' # <<>> =>
            DOMAIN mimg' =
                (0 .. ((margs.end_x - margs.start_x + 1) * 32 * margs.pixels_per_block - 1))
                \X (0 .. ((margs.end_z - margs.start_z + 1) * 32 * margs.pixels_per_block - 1))
       /\ mpc = "pixels" =>
            /\ mexc' # "IndexError"
            /\ mpc' = "loop" =>
                  \A pix \in DOMAIN mimg :
                     IF pix \in Tile(margs, ChunkAt(margs, mi))
                     THEN mwrites'[pix] = mwrites[pix] + 1
                     ELSE mwrites'[pix] = mwrites[pix] /\ mimg'[pix] = mimg[pix]]_vars

\* A row of two chunks rendered at two pixels per block with shading: the
\* image is 128 by 64, every pixel written once, grass in the tile of chunk
\* (0, 0) and water over rock in the tile of chunk (1, 0).
C18_Witness ==
    /\ mpc = "saved" /\ margs = RenderArgs(0, 0, 1, 0, 2, TRUE)
    /\ mlog = << <<<<0, 0>>, "rendered">>, <<<<1, 0>>, "rendered">> >>
    /\ DOMAIN mimg = (0 .. 127) \X (0 .. 63)
    /\ \A pix \in DOMAIN mimg : mwrites[pix] = 1
    /\ mimg[<<63, 63>>] = <<29, 106, 24>> /\ mimg[<<64, 0>>] = <<12, 101, 122>>

-----------------------------------------------------------------------------
(***************************************************************************)
(* Claims on parse_fluid_section together with get_fluid_at (SpecFluid).   *)
(***************************************************************************)

\* The length the encoding fixes for the type array: HalfByte, Byte, Short.
EncodingLength(palette_type) ==
    CASE palette_type = 1 -> 16384
      [] palette_type = 2 -> 32768
      [] palette_type = 3 -> 65536

\* get_fluid_at on the arrays of a returned 4-tuple raises for no cell.
ReadsWithinBounds(ret) ==
    \A x \in Coords, y \in Coords, z \in Coords :
        GetFluidAt(ret.type_palette, ret.type_array, ret.level_array,
                   ret.palette_type, x, y, z).kind = "ok"

\* C21: when parse_fluid_section returns a type array and a level array that
\* are not None, the type array has the length fixed by the encoding (16384,
\* 32768 or 65536 bytes), the level array has 16384 bytes, and get_fluid_at
\* reads within bounds for every cell of the section; no type array that
\* was cut short is returned.
C21_FluidArraysFullSize ==
    (fret # NotCalled /\ fret.kind = "ok"
        /\ ~fret.val.type_array.none /\ ~fret.val.level_array.none) =>
        /\ fret.val.palette_type \in {1, 2, 3}
        /\ Len(fret.val.type_array.bytes) = EncodingLength(fret.val.palette_type)
        /\ Len(fret.val.level_array.bytes) = 16384
        /\ ReadsWithinBounds(fret.val)

\* C21 witness: a whole Short blob with its two palette entries came back
\* with a type array of 65536 bytes and a level array of 16384 bytes, and
\* the last cell of the section is read from it.
C21_Witness ==
    /\ fret # NotCalled /\ fret.kind = "ok"
    /\ fgen.ptype = 3 /\ fgen.cfg = 2 /\ fgen.extra = 0 /\ fgen.cut = fgen.total
    /\ ~fret.val.type_array.none /\ ~fret.val.level_array.none
    /\ Len(fret.val.type_array.bytes) = 65536
    /\ Len(fret.val.level_array.bytes) = 16384
    /\ GetFluidAt(fret.val.type_palette, fret.val.type_array, fret.val.level_array,
                  fret.val.palette_type, 31, 31, 31).kind = "ok"

-----------------------------------------------------------------------------
(***************************************************************************)
(* SpecMatch: one call of get_block_color in a fresh process whose         *)
(* block_properties.json holds a table of two entries, with the name and   *)
(* the biome tint of the call kept so that the colour returned can be      *)
(* traced to the entry it came from.                                       *)
(***************************************************************************)

SoilBytes == <<83, 111, 105, 108>>           \* "Soil"

\* What an entry may hold for TintUp[0] or ParticleColor: a colour of its
\* own, a text without "#" (hex_to_rgb gives None), a text int() rejects.
SoilTint       == <<35, 56, 98, 53, 97, 50, 98>>        \* "#8b5a2b"
SoilParticle   == <<35, 102, 102, 56, 48, 52, 48>>      \* "#ff8040"
GrassTint      == <<35, 53, 66, 57, 69, 50, 56>>        \* "#5B9E28"
GrassParticle  == <<35, 99, 48, 102, 102, 99, 48>>      \* "#c0ffc0"
PlainText      == <<56, 98, 53, 97, 50, 98>>            \* "8b5a2b"
BadText        == <<35, 122, 122, 48, 48, 48, 48>>      \* "#zz0000"

ColourText(kind, colour) ==
    CASE kind = "absent" -> <<>>
      [] kind = "colour" -> colour
      [] kind = "text"   -> PlainText
      [] kind = "bad"    -> BadText

\* The properties of an entry from a short description of it.
PropsOfKind(d, tint, particle) ==
    Props(IF d.tint = "absent" THEN <<>> ELSE <<ColourText(d.tint, tint)>>,
          d.percent, ColourText(d.particle, particle))

\* Descriptions: every TintUp with every BiomeTintUp and ParticleColor for
\* one entry, fewer for the other.
MatchPercents == {0, 30, 50, 100, 150}
RichKinds ==
    {[tint |-> t, percent |-> p, particle |-> c] :
        t \in {"colour", "text", "bad"}, p \in MatchPercents,
        c \in {"absent", "colour", "text", "bad"}}
    \cup {[tint |-> "absent", percent |-> 100, particle |-> c] :
             c \in {"absent", "colour", "text", "bad"}}
PlainKinds ==
    {[tint |-> t, percent |-> p, particle |-> c] :
        t \in {"colour", "text"}, p \in {0, 50}, c \in {"absent", "colour"}}
    \cup {[tint |-> "absent", percent |-> 100, particle |-> c] : c \in {"absent", "colour"}}

\* Tables: the keys "Soil" and "Soil_Grass" in either order, either of them
\* with the richer choice of properties.
MatchTables ==
    {<<Entry(SoilBytes, PropsOfKind(a, SoilTint, SoilParticle)),
       Entry(SoilGrassBytes, PropsOfKind(b, GrassTint, GrassParticle))>> :
        a \in RichKinds, b \in PlainKinds}
    \cup {<<Entry(SoilGrassBytes, PropsOfKind(a, GrassTint, GrassParticle)),
            Entry(SoilBytes, PropsOfKind(b, SoilTint, SoilParticle))>> :
             a \in RichKinds, b \in PlainKinds}

\* Names: "Empty", a key, names both keys or one key are a prefix of, and
\* names no key is a prefix of, with and without a fallback keyword.
MatchNames ==
    {EmptyName, SoilGrassBytes,
     SoilGrassBytes \o <<95, 83, 117, 110, 110, 121>>,      \* "Soil_Grass_Sunny"
     SoilBytes \o <<95, 77, 117, 100>>,                     \* "Soil_Mud"
     <<83, 97, 110, 100>>,                                  \* "Sand"
     <<85, 110, 107, 110, 111, 119, 110>>}                  \* "Unknown"
MatchTints == {NoRgb, SomeRgb(<<40, 200, 80>>)}

InitMatch ==
    /\ gentries \in MatchTables
    /\ gname \in MatchNames
    /\ gtint \in MatchTints
    /\ gret = NotCalled
    /\ IdleCell /\ IdleLookup /\ IdleTints /\ IdleFluid /\ IdleParse /\ IdleSurface
    /\ IdleRegion /\ IdleColumn /\ IdleBlend /\ IdleHeader /\ IdleShade /\ IdleColor
    /\ IdleMap
    /\ IdleScan

\* get_block_color(block_name, biome_tint), the first call of the process.
GetBlockColorOnceStep ==
    /\ gret = NotCalled
    /\ gret' = GetBlockColorCall(gname, gtint, NoTable,
                                 [kind |-> "table", entries |-> gentries], 0).ret
    /\ UNCHANGED <<gentries, gname, gtint, varsCell, varsLookup, varsTints, varsFluid,
                   varsParse, varsSurface, varsRegion, varsColumn, varsBlend,
                   varsHeader, varsShade, varsColor, varsMap, varsScan>>

NextMatch == GetBlockColorOnceStep

SpecMatch == InitMatch /\ [][NextMatch]_vars

\* ---- the entry a colour comes from, described from the table ----
\* What hex_to_rgb makes of an entry's TintUp[0] and of its ParticleColor;
\* None for a key that is absent or holds nothing.
TintOf(props) ==
    IF props.TintUp = <<>> THEN Ok(NoRgb) ELSE HexToRgb(props.TintUp[1])
ParticleOf(props) ==
    IF props.ParticleColor = <<>> THEN Ok(NoRgb) ELSE HexToRgb(props.ParticleColor)

\* The entry holds a colour text int() rejects; the entry supplies a colour.
RaisesValueError(props) ==
    TintOf(props).kind = "raise" \/ ParticleOf(props).kind = "raise"
GivesColour(props) ==
    /\ ~RaisesValueError(props)
    /\ ~TintOf(props).val.none \/ ~ParticleOf(props).val.none

\* The indexes of the entries whose key is a prefix of the name, in table
\* order, and the index of the entry whose key is the name.
PrefixIndexes(name, entries) ==
    SelectSeq([i \in 1 .. Len(entries) |-> i],
              LAMBDA i : StartsWith(name, entries[i].key))
ExactIndexes(name, entries) ==
    SelectSeq([i \in 1 .. Len(entries) |-> i], LAMBDA i : entries[i].key = name)

\* The entries get_block_color may look at, in the order it does: the exact
\* match, then the prefix matches.
LookupOrder(name, entries) == ExactIndexes(name, entries) \o PrefixIndexes(name, entries)

\* The places of an order whose entry supplies a colour or raises, and the
\* first of them (0 when there is none).
Decisive(order, entries) ==
    {p \in 1 .. Len(order) :
        GivesColour(entries[order[p]].props) \/ RaisesValueError(entries[order[p]].props)}
FirstDecisive(order, entries) ==
    IF Decisive(order, entries) = {} THEN 0
    ELSE CHOOSE p \in Decisive(order, entries) : \A q \in Decisive(order, entries) : p <= q

\* The tint percent in force after the places 1 .. last of an order: the
\* BiomeTintUp of the last entry looked at that has a TintUp, else 0.
PercentInForce(order, entries, last) ==
    LET with == {p \in 1 .. last : entries[order[p]].props.TintUp # <<>>} IN
    IF with = {} THEN 0
    ELSE entries[order[CHOOSE p \in with : \A q \in with : q <= p]].props.BiomeTintUp

\* The colour get_block_color is to return when its colour comes from the
\* entry with these properties (the fallback colour when none is given),
\* at a tint percent and biome tint: TintUp as base, else ParticleColor as
\* base; the biome tint mixed in; the particle colour multiplied in when it
\* is distinct from the base, unless the tint was mixed in at 100 percent
\* or more.
ColourFrom(has_entry, props, fallback, percent, biome_tint) ==
    LET tint     == IF has_entry THEN TintOf(props).val ELSE NoRgb
        particle == IF has_entry THEN ParticleOf(props).val ELSE NoRgb
        base     == IF ~tint.none THEN tint.rgb
                    ELSE IF ~particle.none THEN particle.rgb ELSE fallback
        distinct == ~tint.none /\ ~particle.none
        tinted   == ~biome_tint.none /\ percent > 0
    IN  MultipliedIf(distinct /\ ~(tinted /\ percent >= 100),
                     IF tinted THEN Mixed(base, biome_tint.rgb, TintMultiplier(percent))
                     ELSE base,
                     particle)

\* The colour expected of the call in the state: from the first entry of an
\* order that supplies a colour, else from the fallback.
ExpectedColour(order) ==
    LET p == FirstDecisive(order, gentries) IN
    IF p = 0
    THEN ColourFrom(FALSE, <<>>, FallbackColor(gname),
                    PercentInForce(order, gentries, Len(order)), gtint)
    ELSE ColourFrom(TRUE, gentries[order[p]].props, FallbackColor(gname),
                    PercentInForce(order, gentries, p), gtint)

\* C22: in get_block_color the particle multiply colour[c] * particle[c] / 255
\* is applied exactly when the matched entry supplies a particle colour
\* distinct from the base (the base came from TintUp) and it is not the case
\* that biome tinting occurred at a tint percent of 100 or more; a particle
\* colour that served as base is not multiplied in again, and after biome
\* tinting at exactly 100 percent the colour returned is the biome tint.
C22_ParticleMultiply ==
    (gret # NotCalled /\ gret.kind = "ok" /\ gname # EmptyName) =>
        /\ gret.val = ExpectedColour(LookupOrder(gname, gentries))
        /\ (~gtint.none
              /\ PercentInForce(LookupOrder(gname, gentries), gentries,
                     IF FirstDecisive(LookupOrder(gname, gentries), gentries) = 0
                     THEN Len(LookupOrder(gname, gentries))
                     ELSE FirstDecisive(LookupOrder(gname, gentries), gentries)) = 100)
             => gret.val = gtint.rgb

\* C22 witness: "Soil_Grass" matched exactly by an entry with TintUp #5B9E28,
\* BiomeTintUp 50 and ParticleColor #c0ffc0, tinted with (40, 200, 80):
\* the mix (65, 179, 60) multiplied by the particle colour.
C22_Witness ==
    /\ gret = Ok(<<48, 179, 45>>)
    /\ gname = SoilGrassBytes /\ gtint = SomeRgb(<<40, 200, 80>>)
    /\ gentries[1].key = SoilGrassBytes
    /\ gentries[1].props = Props(<<GrassTint>>, 50, GrassParticle)

\* C23 as stated: when the block name has no exact-match entry, the colour
\* returned is taken from the first entry in table order whose key is a
\* prefix of the name, whatever follows it, and the fallback colour is
\* returned only when no key is a prefix of the name.
C23_FirstPrefixEntry ==
    (gret # NotCalled /\ gret.kind = "ok" /\ gname # EmptyName
        /\ ExactIndexes(gname, gentries) = <<>>) =>
        IF PrefixIndexes(gname, gentries) = <<>>
        THEN gret.val = FallbackColor(gname)
        ELSE /\ GivesColour(gentries[PrefixIndexes(gname, gentries)[1]].props)
             /\ gret.val = ColourFrom(TRUE, gentries[PrefixIndexes(gname, gentries)[1]].props,
                                      FallbackColor(gname),
                                      PercentInForce(PrefixIndexes(gname, gentries),
                                                     gentries, 1),
                                      gtint)

\* C23 as the code has it: when the block name (other than "Empty") has no
\* exact-match entry, the colour is taken from the first entry in table
\* order whose key is a prefix of the name and which supplies a colour;
\* prefix-matching entries before it that supply none are passed over
\* (only the BiomeTintUp of one with a TintUp stays in force), entries
\* after it are not consulted, a colour text int() rejects in an entry
\* consulted raises ValueError, and the fallback is used only when no
\* prefix-matching entry supplies a colour.
C23_FirstPrefixEntryWithColour ==
    (gret # NotCalled /\ gname # EmptyName /\ ExactIndexes(gname, gentries) = <<>>) =>
        IF \E p \in 1 .. Len(PrefixIndexes(gname, gentries)) :
              /\ p = FirstDecisive(PrefixIndexes(gname, gentries), gentries)
              /\ RaisesValueError(gentries[PrefixIndexes(gname, gentries)[p]].props)
        THEN gret = Raise("ValueError")
        ELSE gret = Ok(ExpectedColour(PrefixIndexes(gname, gentries)))

\* C23 witness: "Soil_Grass_Sunny" with the entry "Soil" first, whose TintUp
\* is not a colour and which has no ParticleColor, and the entry
\* "Soil_Grass" after it with TintUp #5B9E28: the colour is that of the
\* second entry.
C23_Witness ==
    /\ gret = Ok(<<91, 158, 40>>)
    /\ gname = SoilGrassBytes \o <<95, 83, 117, 110, 110, 121>> /\ gtint = NoRgb
    /\ gentries[1] = Entry(SoilBytes, Props(<<PlainText>>, 50, <<>>))
    /\ gentries[2] = Entry(SoilGrassBytes, Props(<<GrassTint>>, 0, <<>>))


\* ======================================================================
\* SpecScan: render_chunk on one decoded chunk, followed for one column
\* through "Parse heightmap and biome tints", the surface-block loop and the
\* pixel loop up to its call of find_surface_fluid.  Every column of a
\* generated chunk holds the same blocks, fluid and height, so the column
\* followed is reached whenever the first one is.
\* ======================================================================

\* ---- inputs of SpecScan ----
\* The BlockChunk blob with height palette index k in every column
\* (height 3 * k + 11), and one tint.
LevelBlob(k) ==
    BlockChunkBlob([hp |-> <<0, k>>, tp |-> <<0, 5>>,
                    hcount |-> ColumnCount, tcount |-> ColumnCount, len |-> 1280])

\* Heights 11, 95 and 317.
ScanLevels == {0, 28, 102}

\* Section indexes of the sections filled with a block or with water: none
\* or one.
ScanSolids == {{}, {0}, {2}, {9}}
ScanPools == {{}, {2}, {3}, {9}}
ScanBlocks == {1, 3}

ScanDocument(k, solid, id, pool) ==
    Document(TRUE, LevelBlob(k),
             [s \in 0 .. 9 |-> IF s \in solid THEN SolidSection(id) ELSE NoBlock],
             [s \in 1 .. 10 |-> IF s - 1 \in pool THEN PoolSection ELSE NoFluidSection])

ScanDocuments ==
    {ScanDocument(k, solid, id, pool) :
        k \in ScanLevels, solid \in ScanSolids, id \in ScanBlocks, pool \in ScanPools}

ScanColumns == {<<0, 0>>, <<31, 0>>, <<5, 10>>, <<31, 31>>}

\* block_properties.json as render_chunk finds it, not yet loaded.
ScanProps == [file  |-> [kind |-> "table", entries |-> GrassTable],
              cache |-> NoTable, reads |-> 0]

InitScan ==
    /\ ndoc \in ScanDocuments
    /\ ncol \in ScanColumns
    /\ npc = "parse" /\ nparsed = <<>>
    /\ nfound = NotCalled /\ nfluid = NotCalled
    /\ IdleCell /\ IdleLookup /\ IdleTints /\ IdleFluid /\ IdleParse /\ IdleSurface
    /\ IdleRegion /\ IdleColumn /\ IdleBlend /\ IdleHeader /\ IdleShade /\ IdleColor
    /\ IdleMap /\ IdleMatch

\* "Parse heightmap and biome tints": parse_biome_tints, the return on None
\* and "heights, biome_tints = parsed_data".
ParseHeightsStep ==
    /\ npc = "parse"
    /\ \E parsed_data \in {ParseBiomeTints(ndoc)} :
          IF parsed_data.kind = "raise" THEN npc' = "raised" /\ UNCHANGED nparsed
          ELSE IF parsed_data.kind = "None" THEN npc' = "returned" /\ UNCHANGED nparsed
          ELSE /\ nparsed' = [heights |-> parsed_data.val.heightmap,
                              biome_tints |-> parsed_data.val.tint_colors]
               /\ npc' = "blocks"
    /\ UNCHANGED <<ndoc, ncol, nfound, nfluid>>
    /\ UNCHANGED <<varsCell, varsLookup, varsTints, varsFluid, varsParse, varsSurface,
                   varsRegion, varsColumn, varsBlend, varsHeader, varsShade,
                   varsColor, varsMap, varsMatch>>

\* "Get block names at each surface position", for the column:
\* "_, block_name, _ = find_surface_height(chunk_data, x, z)".
SurfaceBlockStep ==
    /\ npc = "blocks"
    /\ nfound' = FindSurfaceHeight(ndoc.block_sections, ncol[1], ncol[2])
    /\ npc' = IF nfound'.kind = "raise" THEN "raised" ELSE "pixels"
    /\ UNCHANGED <<ndoc, ncol, nparsed, nfluid>>
    /\ UNCHANGED <<varsCell, varsLookup, varsTints, varsFluid, varsParse, varsSurface,
                   varsRegion, varsColumn, varsBlend, varsHeader, varsShade,
                   varsColor, varsMap, varsMatch>>

\* The pixel loop for the column, from "height = heights[z][x]" to
\* "fluid_type, fluid_depth = find_surface_fluid(chunk_data, x, z, height)",
\* with get_block_color in between.
SurfaceFluidStep ==
    /\ npc = "pixels"
    /\ \E height \in {nparsed.heights[ncol[2]][ncol[1]]} :
       \E base \in {GetBlockColorCall(nfound.val[2],
                                      TintAt(nparsed.biome_tints, ncol[1], ncol[2]),
                                      ScanProps.cache, ScanProps.file,
                                      ScanProps.reads).ret} :
          IF base.kind = "raise" THEN npc' = "raised" /\ UNCHANGED nfluid
          ELSE /\ nfluid' = [surface_y |-> height,
                             ret |-> FindSurfaceFluid(ndoc.fluid_sections,
                                                      ncol[1], ncol[2], height)]
               /\ npc' = IF nfluid'.ret.kind = "raise" THEN "raised" ELSE "shade"
    /\ UNCHANGED <<ndoc, ncol, nparsed, nfound>>
    /\ UNCHANGED <<varsCell, varsLookup, varsTints, varsFluid, varsParse, varsSurface,
                   varsRegion, varsColumn, varsBlend, varsHeader, varsShade,
                   varsColor, varsMap, varsMatch>>

NextScan == ParseHeightsStep \/ SurfaceBlockStep \/ SurfaceFluidStep

SpecScan == InitScan /\ [][NextScan]_vars

\* C24: the surface_y render_chunk hands to find_surface_fluid for a column
\* with a solid block is the world Y find_surface_height found for that
\* column.
C24_FluidScanFromSolidSurface ==
    (nfluid # NotCalled /\ nfound.val[2] # EmptyName) =>
        nfluid.surface_y = nfound.val[1]


\* The region file read_chunk_data opened and the table entry it went to,
\* from the operations it made on the file.
OpenedRegion == rlog[1].at
SoughtEntry == (rlog[3].at - HEADER_LENGTH) \div 4

\* C25: whenever read_chunk_data reaches the location table, the entry it
\* seeks starts on a multiple of four bytes and has an index in 0 .. 1023,
\* and region r and index relX + relZ * 32 give back the chunk:
\* r_x * 32 + relX = chunk_x and r_z * 32 + relZ = chunk_z with relX and
\* relZ in 0 .. 31, for negative coordinates as for the others; so no two
\* chunks share a region file and entry.
C25_RegionAndEntryGiveChunk ==
    (rret # NotCalled /\ Len(rlog) >= 3) =>
        /\ rlog[1].op = "open" /\ rlog[3].op = "seek"
        /\ (rlog[3].at - HEADER_LENGTH) % 4 = 0
        /\ SoughtEntry \in 0 .. 1023
        /\ OpenedRegion[1] * 32 + (SoughtEntry % 32) = rchunk[1]
        /\ OpenedRegion[2] * 32 + (SoughtEntry \div 32) = rchunk[2]

\* C25 witness: chunk (-37, -1) read from entry (32 - 5) + 31 * 32 of the region
\* file -2.-1.region.bin.
C25_Witness ==
    /\ rret # NotCalled /\ Len(rlog) >= 3
    /\ rchunk = <<-(32 + RegionSpan), -1>>
    /\ rlog[1] = OpOpen(<<-2, -1>>)
    /\ rlog[3] = OpSeek(HEADER_LENGTH + 4 * ((32 - RegionSpan) + 31 * 32))

=============================================================================
